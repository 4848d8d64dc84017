---------------------------- MODULE Reservation ----------------------------
(***************************************************************************)
(* What the reservations of the repository promise the vendors they guard, *)
(* without clocks, sentinels, caches or uploads: whoever asks a vendor     *)
(* about a subject was admitted while nobody had asked about it, and a     *)
(* success is confirmed only by one who was admitted, of a subject that    *)
(* was asked about.  An exclusive reservation is spent on one question;    *)
(* a shared one may be, by those who were admitted together.  Only the     *)
(* loss of its record opens a subject again.                               *)
(***************************************************************************)
CONSTANTS
  Askers,     \* who may be admitted
  Subjects,   \* what a vendor is asked about
  Questions,  \* names of the questions
  Shared      \* TRUE: those who were admitted together may all ask

VARIABLES
  admitted,   \* set of <<asker, subject>>: those who may ask now
  asked,      \* set of <<question, subject>>: every question ever sent
  confirmed,  \* subjects of which a success was recorded
  lost        \* subjects whose record was lost

vars == <<admitted, asked, confirmed, lost>>

Init == admitted = {} /\ asked = {} /\ confirmed = {} /\ lost = {}

Unasked(s) == s \in lost \/ \A e \in asked : e[2] # s

Admit(a, s) ==
  /\ Unasked(s)
  /\ admitted' = admitted \cup {<<a, s>>}
  /\ UNCHANGED <<asked, confirmed, lost>>

Leave(a, s) ==
  /\ admitted' = admitted \ {<<a, s>>}
  /\ UNCHANGED <<asked, confirmed, lost>>

Ask(a, s, q) ==
  /\ <<a, s>> \in admitted
  /\ Shared \/ Unasked(s)
  /\ asked' = asked \cup {<<q, s>>}
  /\ UNCHANGED <<admitted, confirmed, lost>>

Confirm(a, s) ==
  /\ <<a, s>> \in admitted /\ \E e \in asked : e[2] = s
  /\ confirmed' = confirmed \cup {s}
  /\ admitted' \in {admitted, admitted \ {<<a, s>>}}
  /\ UNCHANGED <<asked, lost>>

Lose(s) ==
  /\ lost' = lost \cup {s}
  /\ UNCHANGED <<admitted, asked, confirmed>>

Next ==
  \E s \in Subjects :
    \/ Lose(s)
    \/ \E a \in Askers :
         \/ Admit(a, s) \/ Leave(a, s) \/ Confirm(a, s)
         \/ \E q \in Questions : Ask(a, s, q)

Spec == Init /\ [][Next]_vars
=============================================================================
