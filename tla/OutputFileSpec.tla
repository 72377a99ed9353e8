---------------------------- MODULE OutputFileSpec ----------------------------
(***************************************************************************)
(* What an output file promises as long as no socket breaks: what each     *)
(* writer hands over is appended to the file, in the order in which it was *)
(* handed over, nothing twice, and nothing is missing once the file is     *)
(* given up.  Writers of one file may interleave.  A file nobody writes    *)
(* any more is emptied by the next writer that opens it.                   *)
(***************************************************************************)
EXTENDS Naturals, Sequences, FiniteSets

CONSTANTS Clients, MaxBytes

VARIABLES writing,   \* the clients that have the file open
          party,     \* those that opened it since it was last emptied
          given,     \* the bytes a client has handed over
          log        \* the bytes of the file, each as <<client, number>>

vars == <<writing, party, given, log>>

(* How many bytes of c the file has.                                       *)
Appended(c) == Cardinality({i \in DOMAIN log : log[i][1] = c})
Bytes(c, from, n) == [i \in 1 .. n |-> <<c, from + i>>]

Init ==
  /\ writing = {} /\ party = {}
  /\ given = [c \in Clients |-> 0]
  /\ log = <<>>

Open(c) ==
  /\ c \notin writing
  /\ writing' = writing \cup {c}
  /\ log'   = IF writing = {} THEN <<>> ELSE log
  /\ party' = IF writing = {} THEN {c} ELSE party \cup {c}
  /\ UNCHANGED given

Give(c) ==
  /\ \E n \in 1 .. MaxBytes : given' = [given EXCEPT ![c] = @ + n]
  /\ UNCHANGED <<writing, party, log>>

(* The next bytes of c, however many.                                      *)
AppendNext(c) ==
  LET done == Appended(c)
  IN  /\ c \in party
      /\ \E n \in 1 .. given[c] - done : log' = log \o Bytes(c, done, n)
      /\ UNCHANGED <<writing, party, given>>

(* Whoever is last leaves nothing behind that was handed over, though the  *)
(* file may be removed then.                                               *)
Close(c) ==
  /\ c \in writing /\ writing' = writing \ {c}
  /\ writing' = {} => \A d \in party : Appended(d) = given[d]
  /\ log' = log \/ (writing' = {} /\ log' = <<>>)
  /\ UNCHANGED <<party, given>>

Next == \E c \in Clients : Open(c) \/ Give(c) \/ AppendNext(c) \/ Close(c)

Spec == Init /\ [][Next]_vars
===============================================================================
