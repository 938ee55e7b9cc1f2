--------------------------- MODULE MembershipLog ---------------------------
(* What a revocation registry promises, without accumulators, deltas or      *)
(* tails: a set of member indices of which every single change is published, *)
(* in order, and a holder who knows the other members at some published      *)
(* position that never moves back.  The promise ends (sound = FALSE) when a  *)
(* change could not be published.                                            *)
EXTENDS Naturals, Sequences

CONSTANTS Indices,    \* 1..max_cred_num
          Me          \* the holder's index

VARIABLES members,    \* the credentials accumulated now
          log,        \* the sets published so far
          sound,      \* every change was published
          known,      \* the other members the holder's witness stands for
          at          \* the position of log they were read at, 0 before

vars == <<members, log, sound, known, at>>

Init == /\ members \in SUBSET Indices
        /\ log = <<members>>
        /\ sound = TRUE
        /\ known = {}
        /\ at = 0

Publish(i) == /\ i \in Indices
              /\ members' = IF i \in members THEN members \ {i} ELSE members \cup {i}
              /\ log' = Append(log, members')
              /\ UNCHANGED <<sound, known, at>>

Learn(k) == /\ k \in DOMAIN log
            /\ k >= at
            /\ at' = k
            /\ known' = log[k] \ {Me}
            /\ UNCHANGED <<members, log, sound>>

Lapse == sound' = FALSE

Next == \/ \E i \in Indices : Publish(i)
        \/ \E k \in DOMAIN log : Learn(k)
        \/ Lapse

Spec == Init /\ [][Next]_vars
=============================================================================
