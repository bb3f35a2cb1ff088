------------------------------- MODULE Keyset -------------------------------
(***************************************************************************)
(* The directory of the HPKE keys and the commands that change it          *)
(* (deploy/security/sync_hpke_keysets.py): provision, prepare-rotation,    *)
(* activate-generation and retire-generation, one file operation at a      *)
(* time.  Any of them may fail, those of a rollback as well, and the       *)
(* process may die between two.                                            *)
(*                                                                         *)
(* A loss of power brings back an earlier state of the directory, none     *)
(* from before its last fsync: the states a dead process leaves.  One      *)
(* purpose is modelled; modes, owners and links of the files are not.      *)
(***************************************************************************)
EXTENDS Integers, Sequences

CONSTANTS
    Hands,          \* operators at work
    Nobody,
    MaxGenerations  \* bound: generations ever prepared, keys ever drawn

VARIABLES
    manifest,  \* keyset.json, Missing before provision
    files,     \* the key in each raw file
    litter,    \* a temporary manifest was left behind
    lock,      \* who has locked the directory
    hand,      \* what each operator's command has still to do
    drawn,     \* keys drawn so far
    sealed,    \* keys that were active once, a history
    ordered    \* keys whose deletion was confirmed, a history

keysetVars == <<manifest, files, litter, lock, hand, drawn, sealed, ordered>>

Generations == 1 .. MaxGenerations
Keys == 1 .. MaxGenerations
Absent == 0
Partial == -1      \* created, not written to its end
Names == Generations \X {"private", "public"}

\* private: the entry names the private file.
Entry == [state : {"none", "active", "retired"}, key : {Absent} \cup Keys, private : BOOLEAN]
NoEntry == [state |-> "none", key |-> Absent, private |-> FALSE]
Manifest == [version : {1, 2}, of : [Generations -> Entry]]
Missing == [version |-> 0]

Idle == [kind |-> "idle"]

\* What a manifest names.
Named(m) == {n \in Names : m.of[n[1]].state # "none" /\ (n[2] = "public" \/ m.of[n[1]].private)}

\* _verify_manifest: what it names is there, and nothing else.
Exact(m, f, extra) ==
    /\ ~extra
    /\ \A n \in Names : f[n] = IF n \in Named(m) THEN m.of[n[1]].key ELSE Absent
    /\ \E g \in Generations :
          /\ m.of[g].state = "active" /\ m.of[g].private
          /\ \A h \in Generations \ {g} : m.of[h].state # "active"

First(version) ==
    [version |-> version, of |-> [g \in Generations |->
        IF g = 1 THEN [state |-> "active", key |-> 1, private |-> TRUE] ELSE NoEntry]]
FilesOf(m) == [n \in Names |-> IF n \in Named(m) THEN m.of[n[1]].key ELSE Absent]

\* No keyset, or one that provision made, now or in version 1.
Init ==
    /\ \/ manifest = Missing /\ files = [n \in Names |-> Absent] /\ drawn = 0 /\ sealed = {}
       \/ \E version \in {1, 2} :
             /\ manifest = First(version) /\ files = FilesOf(First(version))
             /\ drawn = 1 /\ sealed = {1}
    /\ litter = FALSE /\ lock = Nobody /\ ordered = {}
    /\ hand = [o \in Hands |-> Idle]

-----------------------------------------------------------------------------
(* File operations, in the order a command runs them.                      *)

Write(name, key) == [do |-> "write", name |-> name, key |-> key]
Unlink(name) == [do |-> "unlink", name |-> name]
Sync == [do |-> "sync"]
Check(m) == [do |-> "check", of |-> m]

\* _replace_manifest: a temporary file, renamed.
Replace(m) == <<[do |-> "new"], [do |-> "rename", of |-> m], Sync>>

Steps(command) ==
    LET private == <<command.generation, "private">>
        public == <<command.generation, "public">>
    IN
    CASE command.kind = "prepare" ->
            <<Write(private, command.key), Write(public, command.key)>>
            \o Replace(command.to) \o <<Check(command.to)>>
      [] command.kind = "activate" -> Replace(command.to) \o <<Check(command.to)>>
      [] command.kind = "retire" -> <<Check(command.to)>>
      [] command.kind = "delete" ->
            Replace(command.to) \o <<Unlink(private), Sync, Check(command.to)>>

\* Mutant: the files go, whatever the manifest says.
UndoKeepsManifest(command, done) ==
    IF command.kind = "prepare"
    THEN <<Unlink(<<command.generation, "private">>), Unlink(<<command.generation, "public">>), Sync>>
    ELSE Replace(command.from)

\* What is undone when a step fails after "done" of them; prepare knows that
\* its manifest is in place only once that is synchronised.
Undo(command, done) ==
    LET private == <<command.generation, "private">>
        public == <<command.generation, "public">>
    IN
    CASE command.kind = "prepare" ->
            (IF done >= 5 THEN Replace(command.from) ELSE <<>>)
            \o (IF done >= 1 THEN <<Unlink(private)>> ELSE <<>>)
            \o (IF done >= 2 THEN <<Unlink(public)>> ELSE <<>>) \o <<Sync>>
      [] command.kind = "delete" ->
            (IF done >= 4 THEN <<Write(private, command.key)>> ELSE <<>>) \o Replace(command.from)
      [] command.kind \in {"activate", "retire"} -> Replace(command.from)

-----------------------------------------------------------------------------
(* The commands begin: lock, read and verify.                              *)

Begin(o, command) ==
    /\ lock' = o
    /\ hand' = [hand EXCEPT ![o] =
           [kind |-> command.kind, command |-> command, found |-> files,
            todo |-> Steps(command), cause |-> "none"]]
    /\ UNCHANGED <<manifest, files, litter>>

\* Mutant: the directory is not locked.
AdmittedAlways(o) == hand[o] = Idle /\ manifest # Missing /\ Exact(manifest, files, litter)

Admitted(o) ==
    /\ hand[o] = Idle /\ lock = Nobody
    /\ manifest # Missing /\ Exact(manifest, files, litter)

\* _normalized_manifest: what is written has version 2.
Changed(g, entry) == [version |-> 2, of |-> [manifest.of EXCEPT ![g] = entry]]

\* The whole keyset is made beside and renamed into its place.
Provision ==
    /\ manifest = Missing
    /\ manifest' = First(2) /\ files' = FilesOf(First(2))
    /\ drawn' = 1 /\ sealed' = {1}
    /\ UNCHANGED <<litter, lock, hand, ordered>>

PrepareRotation(o, g) ==
    /\ Admitted(o) /\ manifest.of[g].state = "none" /\ drawn < MaxGenerations
    /\ drawn' = drawn + 1
    /\ Begin(o, [kind |-> "prepare", generation |-> g, key |-> drawn + 1, from |-> manifest,
                 to |-> Changed(g, [state |-> "retired", key |-> drawn + 1, private |-> TRUE])])
    /\ UNCHANGED <<sealed, ordered>>

Activated(g) ==
    [version |-> 2, of |-> [h \in Generations |->
        IF h = g THEN [manifest.of[h] EXCEPT !.state = "active"]
        ELSE IF manifest.of[h].state = "active" THEN [manifest.of[h] EXCEPT !.state = "retired"]
        ELSE manifest.of[h]]]

ActivateGeneration(o, g) ==
    /\ Admitted(o) /\ manifest.of[g].private
    /\ Begin(o, [kind |-> "activate", generation |-> g, key |-> manifest.of[g].key,
                 from |-> manifest, to |-> Activated(g)])
    /\ UNCHANGED <<drawn, sealed, ordered>>

\* Mutant: the active generation may be retired.
RetirableAlways(g) == manifest.of[g].state # "none"

Retirable(g) == manifest.of[g].state = "retired"

\* The operator vouches for an empty inventory; delete: --delete-private.
RetireGeneration(o, g, delete) ==
    LET deletes == delete /\ manifest.of[g].private
        key == manifest.of[g].key
    IN
    /\ Admitted(o) /\ Retirable(g)
    /\ Begin(o, [kind |-> IF deletes THEN "delete" ELSE "retire", generation |-> g, key |-> key,
                 from |-> manifest,
                 to |-> [version |-> 2, of |-> IF deletes THEN [manifest.of EXCEPT ![g].private = FALSE]
                                               ELSE manifest.of]])
    /\ ordered' = IF deletes THEN ordered \cup {key} ELSE ordered
    /\ UNCHANGED <<drawn, sealed>>

-----------------------------------------------------------------------------
(* And go on.                                                              *)

Active(m) == {m.of[g].key : g \in {h \in Generations : m.of[h].state = "active"}}

Do(step) ==
    /\ files' = CASE step.do = "write" -> [files EXCEPT ![step.name] = step.key]
                  [] step.do = "unlink" -> [files EXCEPT ![step.name] = Absent]
                  [] OTHER -> files
    /\ IF step.do = "rename"
       THEN manifest' = step.of /\ sealed' = sealed \cup Active(step.of)
       ELSE UNCHANGED <<manifest, sealed>>

Busy(o) == hand[o] # Idle /\ hand[o].todo # <<>>
Now(o) == Head(hand[o].todo)

Possible(step) ==
    /\ step.do = "write" => files[step.name] = Absent     \* O_EXCL
    /\ step.do = "check" => Exact(step.of, files, litter)

Proceed(o) ==
    /\ Busy(o) /\ Possible(Now(o)) /\ Do(Now(o))
    /\ hand' = [hand EXCEPT ![o].todo = Tail(@)]
    /\ UNCHANGED <<litter, lock, drawn, ordered>>

\* A failed write may leave its file; a temporary manifest is removed, unless
\* that fails as well.
Fail(o) ==
    LET step == Now(o)
        command == hand[o].command
        done == Len(Steps(command)) - Len(hand[o].todo)
    IN
    /\ Busy(o)
    /\ IF step.do = "write" /\ files[step.name] = Absent
       THEN \E left \in {Absent, Partial} : files' = [files EXCEPT ![step.name] = left]
       ELSE UNCHANGED files
    /\ litter' \in {litter, litter \/ step.do \in {"new", "rename"}}
    /\ hand' = [hand EXCEPT
           ![o].cause = IF @ = "none" THEN step.do ELSE "again",
           ![o].todo = IF hand[o].cause = "none" THEN Undo(command, done)
                       ELSE IF step.do = "unlink" THEN Tail(@) ELSE <<>>]
    /\ UNCHANGED <<manifest, lock, drawn, sealed, ordered>>

Finished(o) == hand[o] # Idle /\ hand[o].todo = <<>>

Finish(o) ==
    /\ Finished(o)
    /\ hand' = [hand EXCEPT ![o] = Idle] /\ lock' = Nobody
    /\ UNCHANGED <<manifest, files, litter, drawn, sealed, ordered>>

Die(o) ==
    /\ Busy(o)
    /\ hand' = [hand EXCEPT ![o] = Idle] /\ lock' = Nobody
    /\ \/ UNCHANGED <<files, litter>>
       \/ /\ Now(o).do = "write" /\ files[Now(o).name] = Absent
          /\ files' = [files EXCEPT ![Now(o).name] = Partial] /\ UNCHANGED litter
       \/ /\ Now(o).do \in {"new", "rename"} /\ litter' = TRUE /\ UNCHANGED files
    /\ UNCHANGED <<manifest, drawn, sealed, ordered>>

Next ==
    \/ Provision
    \/ \E o \in Hands :
          \/ \E g \in Generations :
                \/ PrepareRotation(o, g) \/ ActivateGeneration(o, g)
                \/ \E delete \in BOOLEAN : RetireGeneration(o, g, delete)
          \/ Proceed(o) \/ Fail(o) \/ Finish(o) \/ Die(o)

Spec == Init /\ [][Next]_keysetVars

-----------------------------------------------------------------------------
TypeOK ==
    /\ manifest = Missing \/ manifest \in Manifest
    /\ files \in [Names -> {Absent, Partial} \cup Keys]
    /\ litter \in BOOLEAN /\ lock \in Hands \cup {Nobody} /\ drawn \in 0 .. MaxGenerations
    /\ \A o \in Hands : hand[o] # Idle => lock = o
    /\ sealed \subseteq Keys /\ ordered \subseteq Keys

\* Whatever fails or dies, and wherever, the active generation has both its
\* files: a service that starts again can seal and open.
ActiveBacked ==
    manifest # Missing =>
        \E g \in Generations : manifest.of[g].state = "active" /\
            \A kind \in {"private", "public"} : files[<<g, kind>>] = manifest.of[g].key

\* A private key that may have sealed something is deleted only by a confirmed
\* retirement of its generation.
KeysKept ==
    \A key \in sealed \ ordered : \E g \in Generations : files[<<g, "private">>] = key

\* A command that reports success leaves an exact keyset.
SuccessExact ==
    \A o \in Hands : Finished(o) /\ hand[o].cause = "none" => Exact(manifest, files, litter)

\* A command whose only trouble is the validation after its writes leaves the
\* manifest and the files as it found them.
ValidationUndone ==
    \A o \in Hands : Finished(o) /\ hand[o].cause = "check"
        => manifest = hand[o].command.from /\ files = hand[o].found

KeysetSafe == ActiveBacked /\ KeysKept /\ SuccessExact /\ ValidationUndone
=============================================================================
