------------------------------ MODULE Startup ------------------------------
(***************************************************************************)
(* `imr-proxy start`: the main thread starts the thread of the web console *)
(* and becomes the proxy.  Both open the database (StorageInit), and main  *)
(* makes sure of the CA (LocalCA), which a command of the user may be      *)
(* working on.  The web thread is a daemon: it ends with the process, and  *)
(* the process ends when main does.                                        *)
(***************************************************************************)
EXTENDS StorageInit, LocalCA

CONSTANTS
  Main, Web,  \* the two threads
  Intercepts  \* whether the configuration asks for interception: a set

ASSUME StartupAssumption ==
  /\ Main \in Starters /\ Web \in Starters /\ Main # Web
  /\ {Main, Web} \in Processes
  /\ Main \in Workers /\ Web \notin Workers
  /\ Intercepts \subseteq BOOLEAN

VARIABLES
  stage,       \* where main is: init_db, the CA, listening
  intercepts   \* the configuration of the running process

startvars == <<storagevars, cavars, stage, intercepts>>

StartupInit ==
  /\ StorageInit /\ CAInit
  /\ stage = "off"
  /\ intercepts = FALSE

Process == {Main, Web}

\* start: the bind is valid.  main goes on to run_proxy.
Launch ==
  /\ stage = "off"
  /\ Start(Main)
  /\ stage' = "init"
  /\ intercepts' \in Intercepts
  /\ UNCHANGED cavars

\* start_web_thread, unless --no-web: the thread comes to create_app later.
LaunchWeb ==
  /\ stage # "off"
  /\ Start(Web)
  /\ UNCHANGED <<cavars, stage, intercepts>>

\* main or web inside init_db
InInitDb(s) == InitDb(s) /\ UNCHANGED <<cavars, stage, intercepts>>

\* run_proxy stores its session record and goes to the CA, if it needs one.
OpenSession ==
  /\ stage = "init" /\ pc[Main] = "ready" /\ Unlocked(Main)
  /\ stage' = IF intercepts THEN "ca" ELSE "listening"
  /\ UNCHANGED <<storagevars, cavars, intercepts>>

\* The record finds the lock taken for too long: nothing tries again.
SessionStaysBusy ==
  /\ stage = "init" /\ pc[Main] = "ready" /\ ~Unlocked(Main)
  /\ stage' = "failed"
  /\ UNCHANGED <<storagevars, cavars, intercepts>>

\* ensure_ca_for_interception and what follows from it
MakeSureOfCA ==
  /\ stage = "ca" /\ EnsureCA(Main)
  /\ UNCHANGED <<storagevars, stage, intercepts>>

GoOnWithCA ==
  /\ stage = "ca" /\ Proceed(Main)
  /\ UNCHANGED <<storagevars, stage, intercepts>>

Listen ==
  /\ stage = "ca" /\ ca[Main] = "done"
  /\ stage' = "listening"
  /\ UNCHANGED <<storagevars, cavars, intercepts>>

\* mitmproxy cannot bind the port of the proxy, or ends for another reason.
RunFails ==
  /\ stage = "listening"
  /\ stage' = "failed"
  /\ UNCHANGED <<storagevars, cavars, intercepts>>

\* A running proxy stores what it sees, or fails to.
Capture ==
  /\ stage = "listening"
  /\ Save(Main) \/ SaveRaises(Main)
  /\ UNCHANGED <<cavars, stage, intercepts>>

\* Something that main has called has raised.
MainFails == stage = "failed" \/ pc[Main] = "failed" \/ ca[Main] = "failed"

\* Wrong on purpose: the web thread is no daemon and keeps the process.
MainOnly == {Main}

\* The threads that end when main does.
EndingThreads == Process

EndProcess ==
  /\ Stop(EndingThreads) /\ EndCA(Main)
  /\ stage' = "off" /\ intercepts' = FALSE

\* The exception that main raised ends the process...
Exit == MainFails /\ EndProcess

\* ...and so does the user, or a crash, at any time.
Kill == stage # "off" /\ EndProcess

\* A `ca` command next to it.
CommandStep(w) ==
  /\ w # Main /\ (Command(w) \/ Proceed(w) \/ EndCA(w))
  /\ UNCHANGED <<storagevars, stage, intercepts>>

StartupNext ==
  \/ Launch \/ LaunchWeb \/ InInitDb(Main) \/ InInitDb(Web)
  \/ OpenSession \/ SessionStaysBusy \/ MakeSureOfCA \/ GoOnWithCA \/ Listen \/ RunFails
  \/ Capture \/ Exit \/ Kill
  \/ \E w \in Workers : CommandStep(w)

StartupSpec == StartupInit /\ [][StartupNext]_startvars

\* The threads run on; nobody has to start, stop or command anything.
FairStartup ==
  /\ StartupSpec
  /\ WF_startvars(InInitDb(Main)) /\ WF_startvars(InInitDb(Web))
  /\ WF_startvars(Exit)

-----------------------------------------------------------------------------
\* Correctness

\* A console does not outlive its proxy: a start that fails takes the web
\* thread with it, wherever that is.
ConsoleFollowsProxy == MainFails ~> pc[Web] = "off"

\* A listening proxy has what it needs: a complete database and, if it
\* intercepts, a pair to sign with that no command has cut short.
ListensReady == stage = "listening" => Complete /\ (intercepts => used[Main] \in Pairs)
=============================================================================
