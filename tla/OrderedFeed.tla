---------------------------- MODULE OrderedFeed ----------------------------
(***************************************************************************)
(* What the event bus promises to a reader, without its history, queues    *)
(* and generators: one log of frames that only grows, and readers that     *)
(* join it somewhere, are given its frames one after the other, and leave. *)
(* A frame may be lost for a reader, but only openly and only while it is  *)
(* the newest one.                                                         *)
(***************************************************************************)
EXTENDS Naturals, Sequences

CONSTANTS Readers, Frame, Closes(_)

VARIABLES log,      \* every frame, in order
          start,    \* the first frame a reader is given
          given,    \* numbers of the frames a reader was given
          lost,     \* numbers of the frames a reader was refused
          at        \* "out", "in" or "gone"

feed == <<log, start, given, lost, at>>

Init ==
    /\ log = <<>>
    /\ start = [r \in Readers |-> 0]
    /\ given = [r \in Readers |-> <<>>]
    /\ lost = [r \in Readers |-> {}]
    /\ at = [r \in Readers |-> "out"]

Write(f) ==
    /\ log' = Append(log, f)
    /\ UNCHANGED <<start, given, lost, at>>

Join(r, n) ==
    /\ at[r] = "out"
    /\ at' = [at EXCEPT ![r] = "in"]
    /\ start' = [start EXCEPT ![r] = n]
    /\ UNCHANGED <<log, given, lost>>

(* The frame a reader is due: the first one after those it was given that  *)
(* was not lost.                                                           *)
Last(r) == IF given[r] = <<>> THEN start[r] - 1 ELSE given[r][Len(given[r])]

Due(r, n) ==
    /\ n \in Last(r) + 1 .. Len(log)
    /\ n \notin lost[r]
    /\ \A k \in Last(r) + 1 .. n - 1 : k \in lost[r]

Give(r, n) ==
    /\ at[r] = "in"
    /\ Due(r, n)
    /\ given' = [given EXCEPT ![r] = Append(@, n)]
    /\ at' \in {at, [at EXCEPT ![r] = IF Closes(log[n]) THEN "gone" ELSE @]}
    /\ UNCHANGED <<log, start, lost>>

Lose(r) ==
    /\ at[r] # "out"
    /\ log # <<>>
    /\ lost' = [lost EXCEPT ![r] = @ \cup {Len(log)}]
    /\ UNCHANGED <<log, start, given, at>>

Depart(r) ==
    /\ at[r] = "in"
    /\ at' = [at EXCEPT ![r] = "gone"]
    /\ UNCHANGED <<log, start, given, lost>>

Next ==
    \/ \E f \in Frame : Write(f)
    \/ \E r \in Readers :
        \/ Lose(r) \/ Depart(r)
        \/ \E n \in 1 .. Len(log) + 1 : Join(r, n) \/ Give(r, n)

Spec == Init /\ [][Next]_feed
=============================================================================
