-------------------------- MODULE HpkeRotationProofs --------------------------
(***************************************************************************)
(* A rotation of the HPKE keys never makes an envelope unreadable, for any *)
(* number of rows and of generations.                                      *)
(*                                                                         *)
(* EnvelopesKept alone is not inductive: what makes the deletion of an old *)
(* key harmless is that an empty inventory, once taken, stays true until   *)
(* another rotation is prepared, because from then on the web application  *)
(* and the command seal with the last generation only.                     *)
(***************************************************************************)
EXTENDS HpkeRotation, TLAPS

\* What an empty inventory promises until the next rotation is prepared.
InventoryHolds ==
    /\ keyset.active = keyset.last /\ service = keyset.last
    /\ \A e \in Envelopes : row[e].state = "active" => row[e].key = keyset.last

\* The inductive invariant; a row that is locked and was read as one of the
\* source is still active, for no owner gets past its lock.
KeptInv ==
    /\ TypeOK
    /\ EnvelopesKept
    /\ keyset.last \in keyset.private /\ service \in keyset.private
    /\ run.at = "locked" => (run.got = TRUE => row[run.target].state = "active")
    /\ empty = TRUE => InventoryHolds

\* Every step of the owners and of the operator keeps the invariant.
LEMMA RotationKept ==
    ASSUME MaxGenerations \in Nat \ {0}, Absent \notin Generations
    PROVE  HpkeSpec => []KeptInv
<1>1. ASSUME TypeOK, run.at = "locked"
      PROVE  /\ run \in [at : {"locked"}, source : Generations, left : SUBSET Envelopes,
                          target : Envelopes, got : BOOLEAN]
             /\ run.target \in Envelopes
             /\ run.got \in BOOLEAN
  BY <1>1, SMT DEF TypeOK, NoRun
<1>2. Init => KeptInv
  <2> SUFFICES ASSUME Init
               PROVE  KeptInv
    OBVIOUS
  <2>1. 1 \in Generations
    BY SMT DEF Generations
  <2>2. row \in [Envelopes -> [state : {"active", "revoked"}, key : Generations \cup {Absent}]]
    BY SMT DEF Init, Revoked
  <2>3. keyset \in [active : Generations, last : Generations, private : SUBSET Generations]
    BY <2>1, SMT DEF Init
  <2>4. TypeOK
    <3>1. keyset.active = 1 /\ keyset.last = 1 /\ keyset.private = {1}
      BY SMT DEF Init
    <3>2. run = NoRun /\ empty \in BOOLEAN /\ service = 1
      BY Zenon DEF Init
    <3> QED
      BY <2>1, <2>2, <2>3, <3>1, <3>2, SMT DEF TypeOK
  <2> QED
    <3>1. \A e \in Envelopes : row[e].state = "revoked" /\ row[e].key = Absent
      <4>1. row = [e \in Envelopes |-> Revoked]
        BY DEF Init
      <4> QED
        BY <4>1 DEF Revoked
    <3>2. keyset.last = 1 /\ keyset.private = {1} /\ run.at = "none"
      BY SMT DEF Init, NoRun
    <3> QED
      BY <2>4, <3>1, <3>2, SMT DEF Init, KeptInv, EnvelopesKept
<1>3. KeptInv /\ [Next]_hpkeVars => KeptInv'
  <2> SUFFICES ASSUME KeptInv, [Next]_hpkeVars
               PROVE  KeptInv'
    OBVIOUS
  <2> USE DEF KeptInv
  <2>1. ASSUME NEW e \in Envelopes, Seal(e)
        PROVE  KeptInv'
    BY <2>1, SMT DEF Seal, Unlocked, TypeOK, EnvelopesKept, InventoryHolds, NoRun
  <2>2. ASSUME NEW e \in Envelopes, Revoke(e)
        PROVE  KeptInv'
    BY <2>2, SMT DEF Revoke, Unlocked, TypeOK, EnvelopesKept, InventoryHolds, Revoked, NoRun
  <2>3. ASSUME NEW e \in Envelopes, LockRow(e)
        PROVE  KeptInv'
    <3>1. run \in [at : {"listed"}, source : Generations, left : SUBSET Envelopes]
      BY <2>3, SMT DEF LockRow, TypeOK, NoRun
    <3>2. run' \in [at : {"locked"}, source : Generations, left : SUBSET Envelopes,
                    target : Envelopes, got : BOOLEAN]
      BY <2>3, <3>1, SMT DEF LockRow
    <3>3. TypeOK'
      BY <2>3, <3>2, SMT DEF LockRow, TypeOK
    <3>4. run'.target = e /\ (run'.got = TRUE => row[e].state = "active")
      <4>1. run'.target = e /\ run'.got = (e \in SealedBy(run.source))
        BY <2>3, Zenon DEF LockRow
      <4> QED
        BY <4>1, Zenon DEF SealedBy
    <3> QED
      BY <2>3, <3>3, <3>4, SMT DEF LockRow, EnvelopesKept, InventoryHolds
  <2>4. CASE CommitRow
    BY <2>4, <1>1, SMT DEF CommitRow, TypeOK, EnvelopesKept, InventoryHolds
  <2>5. CASE RowFails
    BY <2>5, <1>1, SMT DEF RowFails, TypeOK, EnvelopesKept, InventoryHolds
  <2>6. CASE EndRun
    BY <2>6, SMT DEF EndRun, TypeOK, EnvelopesKept, InventoryHolds, NoRun
  <2>7. CASE PrepareRotation
    <3>1. /\ keyset.last \in Nat /\ keyset.last + 1 \in Generations
          /\ keyset.active \in Generations /\ keyset.private \subseteq Generations
      <4>1. keyset.last \in Nat /\ keyset.last < MaxGenerations /\ MaxGenerations \in Nat
        BY <2>7, SMT DEF PrepareRotation, TypeOK, Generations
      <4> QED
        BY <4>1, SMT DEF TypeOK, Generations
    <3>2. /\ keyset'.active = keyset.active /\ keyset'.last = keyset.last + 1
          /\ keyset'.private = keyset.private \cup {keyset.last + 1}
          /\ keyset' \in [active : Generations, last : Generations, private : SUBSET Generations]
      <4>1. keyset' = [keyset EXCEPT !.last = @ + 1, !.private = @ \cup {keyset.last + 1}]
        BY <2>7 DEF PrepareRotation
      <4>2. keyset \in [active : Generations, last : Generations, private : SUBSET Generations]
        BY DEF TypeOK
      <4> QED
        BY <3>1, <4>1, <4>2
    <3>3. TypeOK'
      <4>1. keyset'.active \in keyset'.private /\ keyset'.active <= keyset'.last
        BY <3>1, <3>2, SMT DEF TypeOK, Generations
      <4>2. UNCHANGED <<row, service, run>> /\ empty' = FALSE
        BY <2>7, Zenon DEF PrepareRotation
      <4> QED
        BY <3>2, <4>1, <4>2, Zenon DEF TypeOK
    <3> QED
      BY <2>7, <3>2, <3>3, SMT DEF PrepareRotation, EnvelopesKept, InventoryHolds, NoRun
  <2>8. CASE ActivateGeneration
    BY <2>8, SMT DEF ActivateGeneration, TypeOK, EnvelopesKept, InventoryHolds, NoRun, Generations
  <2>9. CASE Switch
    BY <2>9, SMT DEF Switch, TypeOK, EnvelopesKept, InventoryHolds, NoRun
  <2>10. CASE Inventory
    BY <2>10, SMT DEF Inventory, AfterSwitch, SealedBy, TypeOK, EnvelopesKept, InventoryHolds, NoRun
  <2>11. ASSUME NEW g \in Generations, List(g)
         PROVE  KeptInv'
    BY <2>11, SMT DEF List, SealedBy, TypeOK, EnvelopesKept, InventoryHolds, NoRun
  <2>12. ASSUME NEW g \in Generations, RetireGeneration(g)
         PROVE  KeptInv'
    BY <2>12, SMT DEF RetireGeneration, TypeOK, EnvelopesKept, InventoryHolds, NoRun
  <2>13. CASE UNCHANGED hpkeVars
    BY <2>13, SMT DEF hpkeVars, TypeOK, EnvelopesKept, InventoryHolds
  <2> QED
    BY <2>1, <2>2, <2>3, <2>4, <2>5, <2>6, <2>7, <2>8, <2>9, <2>10, <2>11, <2>12, <2>13 DEF Next
<1> QED
  BY <1>2, <1>3, PTL DEF HpkeSpec

\* An active row can always be opened with a private key that is kept, and a
\* revoked one never gets an envelope back (hpke_envelope_rotation.py,
\* sync_hpke_keysets.py), for every number of rows and generations.
THEOREM EnvelopesStayOpen ==
    ASSUME MaxGenerations \in Nat \ {0}, Absent \notin Generations
    PROVE  HpkeSpec => []EnvelopesKept
<1>1. HpkeSpec => []KeptInv
  BY RotationKept
<1>2. KeptInv => EnvelopesKept
  BY DEF KeptInv
<1> QED
  BY <1>1, <1>2, PTL
=============================================================================
