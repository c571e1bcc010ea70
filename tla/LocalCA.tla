------------------------------ MODULE LocalCA ------------------------------
(***************************************************************************)
(* The files of the local CA (certificates.py): made by `ca init`, by      *)
(* `ca rotate` and by a start with interception that does not find them,   *)
(* and read by mitmproxy at that start and by `ca export`.                 *)
(*                                                                         *)
(* init_ca generates a key, which takes seconds, and then writes four      *)
(* files one after the other.  A write is one step, but the process may    *)
(* end in it and leave an empty file.  Nothing locks the directory.        *)
(***************************************************************************)
EXTENDS Naturals

CONSTANTS
  Workers,      \* the processes that work on the CA
  Pairs,        \* bound: the key pairs that are ever generated
  NoPair,       \* no file, no key
  EmptyFile

ASSUME CAAssumption == NoPair \notin Pairs /\ EmptyFile \notin Pairs /\ NoPair # EmptyFile

Files == {"key", "cert", "combined", "mitmCert"}

VARIABLES
  dir,      \* dir[f]: the pair that file f of the directory is of
  kept,     \* the pairs whose private key is in a directory put aside
  made,     \* the pairs generated so far
  spoiled,  \* somebody has written over the files of another, by force or
            \* because the two ran at the same time
  ca,       \* ca[w]: what w does next, for a file: write it
  mine,     \* mine[w]: the pair w writes
  starting, \* starting[w]: w is a start, and goes on to mitmproxy
  used      \* used[w]: the pair that the proxy w signs with

cavars == <<dir, kept, made, spoiled, ca, mine, starting, used>>

\* Every variable has its type.
CATypeOK ==
  /\ dir \in [Files -> Pairs \cup {NoPair, EmptyFile}]
  /\ kept \subseteq Pairs /\ made \subseteq Pairs
  /\ spoiled \in BOOLEAN
  /\ ca \in [Workers -> Files \cup {"idle", "generate", "load", "done", "failed"}]
  /\ mine \in [Workers -> Pairs \cup {NoPair}]
  /\ starting \in [Workers -> BOOLEAN]
  /\ used \in [Workers -> Pairs \cup {NoPair}]

CAInit ==
  /\ dir = [f \in Files |-> NoPair]
  /\ kept = {} /\ made = {}
  /\ spoiled = FALSE
  /\ ca = [w \in Workers |-> "idle"]
  /\ mine = [w \in Workers |-> NoPair]
  /\ starting = [w \in Workers |-> FALSE]
  /\ used = [w \in Workers |-> NoPair]

-----------------------------------------------------------------------------
CAGoto(w, next) == ca' = [ca EXCEPT ![w] = next]

KeyExists == dir["key"] # NoPair

\* Somebody else is at the files.
Others(w) == \E v \in Workers \ {w} : ca[v] \in Files \cup {"generate", "load"}

\* init_ca up to its check; w is a start or not.
\* With --force it goes on over the files that are there.
InitCA(w, force, start) ==
  /\ starting' = [starting EXCEPT ![w] = start]
  /\ IF KeyExists /\ ~force
       THEN CAGoto(w, "failed") /\ UNCHANGED spoiled
       ELSE CAGoto(w, "generate") /\ spoiled' = (spoiled \/ KeyExists \/ Others(w))
  /\ UNCHANGED <<dir, kept, made, mine, used>>

\* ca init, with or without --force
CommandInit(w) ==
  /\ ca[w] = "idle"
  /\ \E force \in BOOLEAN : InitCA(w, force, FALSE)

\* Wrong on purpose: the old directory is removed.
Discarded == kept

\* The old directory goes aside, with all that is in it.
PutAside == kept \cup ({dir["key"]} \cap Pairs)

\* ca rotate moves the directory; its init_ca(force=True) starts on a new one.
CommandRotate(w) ==
  /\ ca[w] = "idle"
  /\ kept' = PutAside
  /\ dir' = [f \in Files |-> NoPair]
  /\ spoiled' = Others(w)
  /\ starting' = [starting EXCEPT ![w] = FALSE]
  /\ CAGoto(w, "generate")
  /\ UNCHANGED <<made, mine, used>>

\* A new key pair.
Generate(w) ==
  /\ ca[w] = "generate"
  /\ \E p \in Pairs \ made : mine' = [mine EXCEPT ![w] = p] /\ made' = made \cup {p}
  /\ CAGoto(w, "key")
  /\ UNCHANGED <<dir, kept, spoiled, starting, used>>

\* Wrong on purpose: the file that mitmproxy reads comes first.
CombinedFirst ==
  [f \in Files |-> CASE f = "combined" -> "key" [] f = "key" -> "cert"
                     [] f = "cert" -> "mitmCert" [] OTHER -> "done"]

\* The file after f.
NextFile ==
  [f \in Files |-> CASE f = "key" -> "cert" [] f = "cert" -> "combined"
                     [] f = "combined" -> "mitmCert" [] OTHER -> "done"]

\* write_bytes and chmod of the next file.
WriteFile(w) ==
  /\ ca[w] \in Files
  /\ dir' = [dir EXCEPT ![ca[w]] = mine[w]]
  /\ CAGoto(w, IF NextFile[ca[w]] = "done" /\ starting[w] THEN "load" ELSE NextFile[ca[w]])
  /\ UNCHANGED <<kept, made, spoiled, mine, starting, used>>

\* ensure_ca_for_interception, at a start: it looks for one file only.
EnsureCA(w) ==
  /\ ca[w] = "idle"
  /\ IF dir["combined"] # NoPair
       THEN /\ CAGoto(w, "load")
            /\ starting' = [starting EXCEPT ![w] = TRUE]
            /\ UNCHANGED <<dir, kept, made, spoiled, mine, used>>
       ELSE InitCA(w, FALSE, TRUE)

\* mitmproxy reads the combined file; it cannot do without a key in it.
LoadCA(w) ==
  /\ ca[w] = "load" /\ dir["combined"] # NoPair
  /\ IF dir["combined"] \in Pairs
       THEN CAGoto(w, "done") /\ used' = [used EXCEPT ![w] = dir["combined"]]
       ELSE CAGoto(w, "failed") /\ UNCHANGED used
  /\ UNCHANGED <<dir, kept, made, spoiled, mine, starting>>

\* Somebody has put the files aside since: mitmproxy makes a CA of its own.
MitmproxyMakesCA(w) ==
  /\ ca[w] = "load" /\ dir["combined"] = NoPair
  /\ \E p \in Pairs \ made :
       /\ dir' = [dir EXCEPT !["combined"] = p, !["mitmCert"] = p]
       /\ made' = made \cup {p}
       /\ used' = [used EXCEPT ![w] = p]
  /\ CAGoto(w, "done")
  /\ UNCHANGED <<kept, spoiled, mine, starting>>

\* The process ends, when its command is done or perhaps in the middle of a file.
EndCA(w) ==
  /\ CAGoto(w, "idle")
  /\ used' = [used EXCEPT ![w] = NoPair]
  /\ mine' = [mine EXCEPT ![w] = NoPair]
  /\ starting' = [starting EXCEPT ![w] = FALSE]
  /\ \/ UNCHANGED dir
     \/ ca[w] \in Files /\ dir' = [dir EXCEPT ![ca[w]] = EmptyFile]
  /\ UNCHANGED <<kept, made, spoiled>>

\* The commands of the user, and what goes on by itself once begun.
Command(w) == CommandInit(w) \/ CommandRotate(w)
Proceed(w) == Generate(w) \/ WriteFile(w) \/ LoadCA(w) \/ MitmproxyMakesCA(w)

CANext == \E w \in Workers : Command(w) \/ EnsureCA(w) \/ Proceed(w) \/ EndCA(w)

CASpec == CAInit /\ [][CANext]_cavars

-----------------------------------------------------------------------------
\* Correctness

\* The file a start looks for is there only when the key and the certificate
\* are, complete and of the same pair, wherever the process that made them
\* ended: the certificate the user installs and the key of `ca leaf` are those
\* mitmproxy signs with.
PairsMatch ==
  ~spoiled /\ dir["combined"] # NoPair
    => /\ dir["key"] \in Pairs /\ dir["cert"] = dir["key"]
       /\ dir["combined"] \in {dir["key"], EmptyFile}

\* A private key leaves the directory only for one that is put aside: the
\* certificates signed with it can still be told.  Only --force and two
\* commands at a time write over it.
KeysAreKept ==
  [][dir["key"] \in Pairs /\ dir'["key"] # dir["key"]
       => dir["key"] \in kept' \/ spoiled']_cavars

\* "Local CA not found; generating one." (engine.py): a start fails at the CA
\* only when the file it looks for is there.
GeneratesWhenNotFound ==
  \A w \in Workers : ca[w] = "failed" /\ starting[w] => dir["combined"] # NoPair
=============================================================================
