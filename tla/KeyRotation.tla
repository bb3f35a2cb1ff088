---------------------------- MODULE KeyRotation ----------------------------
(***************************************************************************)
(* Rotation of the key that encrypts the recoverable secrets               *)
(* (services/key_rotation.py, docs/security/key-rotation.md): a Telegram   *)
(* token and chat id per account, the URL of a calendar subscription.      *)
(*                                                                         *)
(* The API is restarted with a new write key and keeps the old ones to     *)
(* read.  Then "keys-reencrypt" reads all rows of a field at once, visits  *)
(* them in order, re-encrypts what it read and commits by batches, while   *)
(* the API keeps serving owners.  When a second run finds nothing to do,   *)
(* the operator retires the old keys.                                      *)
(*                                                                         *)
(* Keys are numbered, the write key is the newest.  A row object that the  *)
(* session still holds when the next field of its table is loaded is not   *)
(* read again: the last row visited, and those not committed yet.          *)
(***************************************************************************)
EXTENDS Naturals, FiniteSets, Sequences

CONSTANTS
    Accounts, Order,   \* Order[a]: place of a's id
    Values,            \* plain texts
    Batches,           \* values of --batch-size
    Limits,            \* values of --limit, for none a number that no run reaches
    Absent,
    MaxKeys, MaxGifts  \* bounds: keys ever active, secrets set or removed by owners

VARIABLES
    stored,    \* stored[f][a]: envelope in the database
    gifts,
    write,     \* active key of the API and of the command
    readable,  \* keys of the keyring
    command,   \* the running command
    idle       \* the last run since the restart was complete and did nothing

rotationVars == <<stored, gifts, write, readable, command, idle>>

Fields == <<"telegram_token", "telegram_chat_id", "calendar_url">>
Names == {Fields[i] : i \in DOMAIN Fields}
\* Fields of one row: the account's, the subscription's.
RowOf(f) == IF f = "calendar_url" THEN {"calendar_url"} ELSE Names \ {"calendar_url"}

Envelope == [value : Values, key : 1 .. MaxKeys]
Rows == [Names -> [Accounts -> Envelope \cup {Absent}]]
NotRunning == [at |-> "none"]
Commands ==
    [at : {"visiting"}, field : DOMAIN Fields, left : SUBSET Accounts, copy : Rows,
     pending : SUBSET (Names \X Accounts), held : Accounts \cup {Absent},
     scanned : 0 .. 3 * Cardinality(Accounts), done : 0 .. 3 * Cardinality(Accounts),
     batch : Batches, limit : Limits, stopped : BOOLEAN]

TypeOK ==
    /\ stored \in Rows
    /\ gifts \in 0 .. MaxGifts
    /\ write \in 1 .. MaxKeys /\ readable \subseteq 1 .. write /\ write \in readable
    /\ command = NotRunning \/ command \in Commands
    /\ idle \in BOOLEAN

Init ==
    /\ stored = [f \in Names |-> [a \in Accounts |-> Absent]]
    /\ gifts = 0
    /\ write = 1 /\ readable = {1}
    /\ command = NotRunning /\ idle = FALSE

-----------------------------------------------------------------------------
(* Owners.                                                                 *)

Give(a, fields, v) ==
    /\ gifts < MaxGifts /\ gifts' = gifts + 1
    /\ stored' = [f \in Names |-> IF f \in fields
                    THEN [stored[f] EXCEPT ![a] = [value |-> v, key |-> write]] ELSE stored[f]]
    /\ UNCHANGED <<write, readable, command, idle>>

ConfigureTelegram(a) == \E v \in Values : Give(a, RowOf("telegram_token"), v)
ConnectFeed(a) == \E v \in Values : Give(a, {"calendar_url"}, v)

DisconnectFeed(a) ==
    /\ stored["calendar_url"][a] # Absent
    /\ gifts < MaxGifts /\ gifts' = gifts + 1
    /\ stored' = [stored EXCEPT !["calendar_url"][a] = Absent]
    /\ UNCHANGED <<write, readable, command, idle>>

-----------------------------------------------------------------------------
(* The command.                                                            *)

NeedsReencryption(envelope) == envelope.key # write

Rotated(envelope) == [envelope EXCEPT !.key = write]

\* _rows_for_field: the rows that have the field, and the copy of them.
Loaded(c, i) ==
    LET f == Fields[i]
        Holds(a) == /\ i > 1 /\ Fields[i - 1] \in RowOf(f)
                    /\ a = c.held \/ <<Fields[i - 1], a>> \in c.pending
    IN  [c EXCEPT
            !.field = i,
            !.left = {a \in Accounts : stored[f][a] # Absent},
            !.copy = [g \in Names |->
                IF g \in RowOf(f)
                THEN [a \in Accounts |-> IF Holds(a) THEN c.copy[g][a] ELSE stored[g][a]]
                ELSE c.copy[g]]]

Start ==
    /\ command = NotRunning
    /\ \E b \in Batches, l \in Limits :
          command' = Loaded([at |-> "visiting", field |-> 1, left |-> {}, copy |-> stored,
                             pending |-> {}, held |-> Absent, scanned |-> 0, done |-> 0,
                             batch |-> b, limit |-> l, stopped |-> FALSE], 1)
    /\ idle' = FALSE
    /\ UNCHANGED <<stored, gifts, write, readable>>

\* The next row; reaching the limit stops the run before the row changes.
Visit ==
    /\ command.at = "visiting" /\ ~command.stopped
    /\ Cardinality(command.pending) < command.batch
    /\ \E a \in command.left :
          LET f == Fields[command.field]
              envelope == command.copy[f][a]
              seen == [command EXCEPT !.left = @ \ {a}, !.held = a,
                                      !.scanned = IF envelope = Absent THEN @ ELSE @ + 1]
          IN  /\ \A b \in command.left : Order[a] <= Order[b]
              /\ IF envelope = Absent \/ ~NeedsReencryption(envelope) THEN command' = seen
                 ELSE IF command.done = command.limit
                 THEN command' = [seen EXCEPT !.stopped = TRUE]
                 ELSE /\ envelope.key \in readable
                      /\ command' = [seen EXCEPT !.copy[f][a] = Rotated(envelope), !.done = @ + 1,
                                                 !.pending = @ \cup {<<f, a>>}]
    /\ UNCHANGED <<stored, gifts, write, readable, idle>>

\* A row whose subscription was removed meanwhile: the batch is rolled back.
Lost(c) == \E p \in c.pending : stored[p[1]][p[2]] = Absent

Written(c) ==
    [f \in Names |-> [a \in Accounts |->
        IF <<f, a>> \in c.pending THEN c.copy[f][a] ELSE stored[f][a]]]

CommitBatch ==
    /\ command.at = "visiting" /\ Cardinality(command.pending) = command.batch
    /\ IF Lost(command) THEN stored' = stored /\ command' = NotRunning
       ELSE stored' = Written(command) /\ command' = [command EXCEPT !.pending = {}]
    /\ UNCHANGED <<gifts, write, readable, idle>>

NextField ==
    /\ command.at = "visiting" /\ ~command.stopped
    /\ command.left = {} /\ Cardinality(command.pending) < command.batch
    /\ command.field < Len(Fields)
    /\ command' = Loaded(command, command.field + 1)
    /\ UNCHANGED <<stored, gifts, write, readable, idle>>

Inventory(rows) == {p \in Names \X Accounts : rows[p[1]][p[2]] # Absent}
Remaining(rows) == {p \in Inventory(rows) : NeedsReencryption(rows[p[1]][p[2]])}

\* The last commit and _verify_inventory: "idle" when the run was complete,
\* re-encrypted nothing and its inventory is the one it had scanned.
Finish ==
    /\ command.at = "visiting" /\ Cardinality(command.pending) < command.batch
    /\ command.stopped \/ (command.left = {} /\ command.field = Len(Fields))
    /\ IF Lost(command) THEN UNCHANGED <<stored, idle>>
       ELSE /\ stored' = Written(command)
            /\ idle' = (/\ ~command.stopped /\ command.done = 0
                        /\ Remaining(stored') = {}
                        /\ Cardinality(Inventory(stored')) = command.scanned)
    /\ command' = NotRunning
    /\ UNCHANGED <<gifts, write, readable>>

\* The process is interrupted: the open batch is lost.
Interrupt ==
    /\ command # NotRunning
    /\ command' = NotRunning
    /\ UNCHANGED <<stored, gifts, write, readable, idle>>

-----------------------------------------------------------------------------
(* The operator.                                                           *)

\* Step 3: a new key, the old ones only read, API and workers restarted.
Restart ==
    /\ command = NotRunning /\ write < MaxKeys
    /\ write' = write + 1 /\ readable' = readable \cup {write + 1}
    /\ idle' = FALSE
    /\ UNCHANGED <<stored, gifts, command>>

\* Steps 6 and 7: after a second run with nothing to do.
Retire ==
    /\ command = NotRunning /\ idle
    /\ readable' = {write}
    /\ UNCHANGED <<stored, gifts, write, command, idle>>

Next ==
    \/ \E a \in Accounts : ConfigureTelegram(a) \/ ConnectFeed(a) \/ DisconnectFeed(a)
    \/ Start \/ Visit \/ CommitBatch \/ NextField \/ Finish \/ Interrupt
    \/ Restart \/ Retire

RotationSpec == Init /\ [][Next]_rotationVars

-----------------------------------------------------------------------------

(* No stored secret needs a key that was retired, whatever was interrupted *)
(* or limited, and whatever owners change during the runs (the worker and  *)
(* the API fail on such an envelope).                                      *)
RetirementSafe ==
    \A p \in Inventory(stored) : stored[p[1]][p[2]].key \in readable
=============================================================================
