---------------------------- MODULE NonceManager ----------------------------
(***************************************************************************)
(* The nonce manager of the wallet SDK (nonce.ts): a counter filled from   *)
(* the account sequence the node reports, and callers that reserve from it *)
(* concurrently.  reserve() has two suspension points: the query of an     *)
(* unset counter, and the promise of sync() itself, so that the counter    *)
(* may change again before the reservation goes on.                        *)
(***************************************************************************)
EXTENDS Integers

CONSTANTS Reservers   \* the callers; each makes one call of reserve or sync

VARIABLES
    sequence,    \* the account's sequence on the chain
    nextNonce,   \* the counter, or Unset
    reserver,    \* per caller: [pc, since: the sequence when it asked, nonce]
    overwritten  \* history: a counter past the new value was replaced or reset

nonceVars == <<nextNonce, reserver, overwritten>>

Unset == -1
None == -1
IdleReserver == [pc |-> "idle", since |-> 0, nonce |-> None]

NonceInit == /\ nextNonce = Unset
             /\ reserver = [r \in Reservers |-> IdleReserver]
             /\ overwritten = FALSE

(* What the reservation takes once it no longer waits: nextNonce ?? 0.     *)
Take(r, from) == /\ nextNonce' = from + 1
                 /\ reserver' = [reserver EXCEPT ![r].pc = "done", ![r].nonce = from]
                 /\ UNCHANGED overwritten

reserve(r) == /\ reserver[r].pc = "idle"
              /\ IF nextNonce = Unset
                 THEN /\ reserver' = [reserver EXCEPT ![r].pc = "reserving", ![r].since = sequence]
                      /\ UNCHANGED <<nextNonce, overwritten>>
                 ELSE Take(r, nextNonce)

sync(r) == /\ reserver[r].pc = "idle"
           /\ reserver' = [reserver EXCEPT ![r].pc = "syncing", ![r].since = sequence]
           /\ UNCHANGED <<nextNonce, overwritten>>

(* The node's answer: the sequence at some moment since it was asked.      *)
SequenceAnswer(r) ==
    /\ reserver[r].pc \in {"reserving", "syncing"}
    /\ \E s \in reserver[r].since .. sequence :
          /\ nextNonce' = s
          /\ overwritten' = (overwritten \/ (nextNonce # Unset /\ s < nextNonce))
    /\ reserver' = [reserver EXCEPT ![r].pc = IF @ = "reserving" THEN "synced" ELSE "done"]

SequenceFails(r) == /\ reserver[r].pc \in {"reserving", "syncing"}
                    /\ reserver' = [reserver EXCEPT ![r].pc = "done"]
                    /\ UNCHANGED <<nextNonce, overwritten>>

(* Faulty variant: the reservation trusts the value its own sync returned. *)
ReserveResumesStale(r) == /\ reserver[r].pc = "synced"
                          /\ Take(r, reserver[r].since)
ReserveResumes(r) == /\ reserver[r].pc = "synced"
                     /\ Take(r, IF nextNonce = Unset THEN 0 ELSE nextNonce)

reset == /\ nextNonce' = Unset
         /\ overwritten' = (overwritten \/ nextNonce # Unset)
         /\ UNCHANGED reserver

NonceNext == \/ \E r \in Reservers : \/ reserve(r) \/ sync(r)
                                     \/ SequenceAnswer(r) \/ SequenceFails(r)
                                     \/ ReserveResumes(r)
             \/ reset
-----------------------------------------------------------------------------
(* Two reservations get the same nonce only after an answer replaced a     *)
(* counter that was already past it, or a reset forgot the counter: two    *)
(* callers that both met an unset counter and asked the node are served    *)
(* the same nonce when the second answer arrives after the first           *)
(* reservation.                                                            *)
NonceDuplicatesExplained ==
    (\E r, q \in Reservers : r # q /\ reserver[r].nonce # None
                                   /\ reserver[r].nonce = reserver[q].nonce) => overwritten
=============================================================================
