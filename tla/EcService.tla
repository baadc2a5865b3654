----------------------------- MODULE EcService -----------------------------
(***************************************************************************)
(* What the passthrough services promise the operating system: a direct    *)
(* request either is refused or is put to the EC, once, as it was asked,   *)
(* and the caller receives the payload the EC gave for that request and    *)
(* no other.  One request is in progress at a time.                        *)
(***************************************************************************)
EXTENDS Sequences

CONSTANTS Queries,      \* what a caller may ask the EC
          Payloads      \* what the EC may answer

VARIABLES asked,        \* the query in progress, if any (at most one)
          answer,       \* the EC's answer to it, if given (at most one)
          reply         \* what the caller sees

vars == <<asked, answer, reply>>

Init == /\ asked = << >>
        /\ answer = << >>
        /\ reply = [kind |-> "none", bytes |-> << >>]

Refuse == /\ asked = << >>
          /\ reply' = [kind |-> "invalid", bytes |-> << >>]
          /\ UNCHANGED <<asked, answer>>

Ask(q) == /\ asked = << >>
          /\ asked' = <<q>>
          /\ reply' = [kind |-> "pending", bytes |-> << >>]
          /\ answer' = answer

Answer(p) == /\ asked # << >>
             /\ answer = << >>
             /\ answer' = <<[to |-> Head(asked), payload |-> p]>>
             /\ UNCHANGED <<asked, reply>>

Return == /\ answer # << >>
          /\ reply' = [kind |-> "ok", bytes |-> Head(answer).payload]
          /\ asked' = << >>
          /\ answer' = << >>

Next == \/ Refuse
        \/ \E q \in Queries : Ask(q)
        \/ \E p \in Payloads : Answer(p)
        \/ Return

Spec == Init /\ [][Next]_vars
=============================================================================
