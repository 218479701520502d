-------------------------------- MODULE Family --------------------------------
(***************************************************************************)
(* What fork, exit and waitpid promise about who is whose child: every     *)
(* process has its children in a sequence, the youngest first; a child is  *)
(* born to a process that lives, the children of one that dies become      *)
(* init's, the dead one's in front, and only its parent takes a dead child *)
(* out.  ProcessTree shows how the links of the task structures keep this. *)
(***************************************************************************)
EXTENDS Integers, SequencesExt

CONSTANT Slot          \* the slots of task[]; 0 and 1 are task 0 and init

VARIABLES kids,        \* the children of each process
          dead         \* the processes that ended and were not taken out

Members == {0} \cup UNION {ToSet(kids[s]) : s \in Slot}
Alive == Members \ dead

Init == /\ kids = [s \in Slot |-> IF s = 0 THEN <<1>> ELSE <<>>]
        /\ dead = {}

Birth(t, c) == /\ UNCHANGED dead
               /\ kids' = [kids EXCEPT ![t] = <<c>> \o @]

Death(t) == /\ dead' = dead \cup {t}
            /\ kids' = [kids EXCEPT ![1] = kids[t] \o @, ![t] = <<>>]

TakenOut(t, c) == /\ dead' = dead \ {c}
                  /\ c \in ToSet(kids[t])
                  /\ kids' = [kids EXCEPT ![t] = RemoveFirst(@, c)]

Next == \/ \E c \in Members' \ Members : \E t \in Alive : Birth(t, c)
        \/ \E t \in dead' \ dead : t \in Alive \ {0, 1} /\ Death(t)
        \/ \E c \in dead \ dead' : \E t \in Alive : TakenOut(t, c)

Spec == Init /\ [][Next]_<<kids, dead>>
===============================================================================
