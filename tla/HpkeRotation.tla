---------------------------- MODULE HpkeRotation ----------------------------
(***************************************************************************)
(* Rotation of the HPKE keys that seal the PASS sessions or the IMT        *)
(* credentials of the accounts (services/hpke_envelope_rotation.py,        *)
(* deploy/security/sync_hpke_keysets.py), in the order that                *)
(* docs/security/hpke-operational-rotation.md gives the operator.          *)
(*                                                                         *)
(* The command lists the rows of the old key, then locks, opens, seals     *)
(* again and commits each one, while the web application keeps sealing     *)
(* with the public key it loaded and owners revoke.  Only once the         *)
(* services run with the new key and an inventory is empty does the        *)
(* operator delete the old private key.                                    *)
(*                                                                         *)
(* Keys are the generations of one purpose.  A row that is revoked loses   *)
(* its envelope at once; a worker that refreshes a session seals it with   *)
(* the key that opened it.                                                 *)
(***************************************************************************)
EXTENDS Naturals

CONSTANTS
    Envelopes,      \* rows of pass_service_sessions or imt_sync_credentials
    Absent,
    MaxGenerations  \* bound

VARIABLES
    row,      \* row[e]: its state and the generation that sealed it
    keyset,   \* the manifest: active and last generation, private keys kept
    service,  \* generation that web and worker have loaded
    run,      \* the rotation in progress
    empty     \* the last inventory found no old envelope

hpkeVars == <<row, keyset, service, run, empty>>

Generations == 1 .. MaxGenerations
Revoked == [state |-> "revoked", key |-> Absent]
NoRun == [at |-> "none"]

TypeOK ==
    /\ row \in [Envelopes -> [state : {"active", "revoked"}, key : Generations \cup {Absent}]]
    /\ keyset \in [active : Generations, last : Generations, private : SUBSET Generations]
    /\ keyset.active \in keyset.private /\ keyset.active <= keyset.last
    /\ service \in Generations
    /\ \/ run = NoRun
       \/ run \in [at : {"listed"}, source : Generations, left : SUBSET Envelopes]
       \/ run \in [at : {"locked"}, source : Generations, left : SUBSET Envelopes,
                   target : Envelopes, got : BOOLEAN]
    /\ empty \in BOOLEAN

Init ==
    /\ row = [e \in Envelopes |-> Revoked]
    /\ keyset = [active |-> 1, last |-> 1, private |-> {1}]
    /\ service = 1 /\ run = NoRun /\ empty = FALSE

-----------------------------------------------------------------------------
(* Owners.                                                                 *)

Unlocked(e) == run.at = "locked" => run.target # e

\* The web application seals a new session or credential.
Seal(e) ==
    /\ Unlocked(e)
    /\ row' = [row EXCEPT ![e] = [state |-> "active", key |-> service]]
    /\ UNCHANGED <<keyset, service, run, empty>>

Revoke(e) ==
    /\ row[e].state = "active" /\ Unlocked(e)
    /\ row' = [row EXCEPT ![e] = Revoked]
    /\ UNCHANGED <<keyset, service, run, empty>>

-----------------------------------------------------------------------------
(* rotate_hpke_envelopes from a source generation to the last one.         *)

SealedBy(g) == {e \in Envelopes : row[e].state = "active" /\ row[e].key = g}

\* _session_ids, _credential_ids
List(g) ==
    /\ run = NoRun
    /\ g # keyset.last /\ {g, keyset.last} \subseteq keyset.private
    /\ run' = [at |-> "listed", source |-> g, left |-> SealedBy(g)]
    /\ UNCHANGED <<row, keyset, service, empty>>

\* _rotate_session, _rotate_credential: the row is locked and read again; one
\* that is revoked or has another key by now is left.
LockRow(e) ==
    /\ run.at = "listed" /\ e \in run.left
    /\ run' = [at |-> "locked", source |-> run.source, left |-> run.left \ {e},
               target |-> e, got |-> e \in SealedBy(run.source)]
    /\ UNCHANGED <<row, keyset, service, empty>>

\* The round trip and the commit.
CommitRow ==
    /\ run.at = "locked"
    /\ row' = IF run.got THEN [row EXCEPT ![run.target].key = keyset.last] ELSE row
    /\ run' = [at |-> "listed", source |-> run.source, left |-> run.left]
    /\ UNCHANGED <<keyset, service, empty>>

\* The round trip of a row fails, and its transaction is rolled back.
RowFails ==
    /\ run.at = "locked"
    /\ run' = [at |-> "listed", source |-> run.source, left |-> run.left]
    /\ UNCHANGED <<row, keyset, service, empty>>

\* The command ends, is refused by the operator, or dies.
EndRun ==
    /\ run # NoRun
    /\ run' = NoRun
    /\ UNCHANGED <<row, keyset, service, empty>>

-----------------------------------------------------------------------------
(* The operator and the keyset.                                            *)

PrepareRotation ==
    /\ keyset.last < MaxGenerations /\ run = NoRun
    /\ keyset.last = keyset.active /\ service = keyset.active
    /\ keyset' = [keyset EXCEPT !.last = @ + 1, !.private = @ \cup {keyset.last + 1}]
    /\ empty' = FALSE
    /\ UNCHANGED <<row, service, run>>

\* activate_generation changes no row.
ActivateGeneration ==
    /\ run = NoRun
    /\ keyset' = [keyset EXCEPT !.active = keyset.last]
    /\ UNCHANGED <<row, service, run, empty>>

\* Step 10: web and worker are restarted with the active generation.
Switch ==
    /\ service' = keyset.active
    /\ UNCHANGED <<row, keyset, run, empty>>

\* Mutant: the count that ends the rotation, before the services switch, is
\* taken for the inventory.
AfterSwitchOrNot == TRUE

AfterSwitch == service = keyset.active

\* Step 14, _remaining_source of every older key.
Inventory ==
    /\ keyset.active = keyset.last /\ AfterSwitch
    /\ empty' = (\A g \in Generations \ {keyset.last} : SealedBy(g) = {})
    /\ UNCHANGED <<row, keyset, service, run>>

\* retire_generation --delete-private; the operator gives it the count.
RetireGeneration(g) ==
    /\ empty /\ run = NoRun
    /\ g \in keyset.private \ {keyset.active}
    /\ keyset' = [keyset EXCEPT !.private = @ \ {g}]
    /\ UNCHANGED <<row, service, run, empty>>

Next ==
    \/ \E e \in Envelopes : Seal(e) \/ Revoke(e) \/ LockRow(e)
    \/ CommitRow \/ RowFails \/ EndRun
    \/ PrepareRotation \/ ActivateGeneration \/ Switch \/ Inventory
    \/ \E g \in Generations : List(g) \/ RetireGeneration(g)

HpkeSpec == Init /\ [][Next]_hpkeVars

-----------------------------------------------------------------------------

(* An active row can always be opened with a private key that is kept, so  *)
(* that no owner has to connect again, and a revoked one never gets an     *)
(* envelope back from a rotation that had read it before.                  *)
EnvelopesKept ==
    \A e \in Envelopes :
        IF row[e].state = "active" THEN row[e].key \in keyset.private ELSE row[e].key = Absent
=============================================================================
