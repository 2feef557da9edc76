---------------------------- MODULE ConfigActions ----------------------------
(***************************************************************************)
(* Runtime configuration actions of the executor: executor/common_ext.h    *)
(* and the parts of execute_one() (executor/executor.cc) and of the fork   *)
(* loop (executor/common.h) that drive it.                                 *)
(*                                                                         *)
(* Several processes of one VM each execute one program at a time.  A      *)
(* program is a sequence of instructions: system calls, which may outlive  *)
(* the instruction that started them, and config actions, which write a    *)
(* sysctl file.  A process remembers the value a sysctl had before its     *)
(* first restorable action and writes it back when the program ends.  The  *)
(* parent of the test process may kill it at any point before that.        *)
(***************************************************************************)
EXTENDS Integers, Sequences, FiniteSets

CONSTANTS
  Procs,       \* the processes of the VM that run test programs
  Params,      \* kconfuzz_runtime_configs, the sysctls of the registry
  BadParam,    \* a param_id past the end of the registry
  Global,      \* the sysctls the whole VM shares; every other one lives in
               \* the network namespace of the process
  NumValues,   \* value_count: an entry lists the values 0 .. NumValues - 1
  None,        \* no saved value
  Unreadable,  \* the sysctls whose file cannot be read
  Refused,     \* the pairs <<param, value>> the kernel refuses to write
  BootValue,   \* the value of every sysctl when the VM (namespace) is new
  Programs,    \* the programs the manager may send
  SlowCalls,   \* may a call outlive the bounded waits of execute_one?
  MayDie       \* may a test process be killed, or leave, early?

Legal == 0 .. NumValues - 1
\* A value the registry does not list: kconfuzz_value_index finds no index.
Foreign == -1
Value == Legal \cup {Foreign}

Call(async) == [op |-> "call", async |-> async]

Action(param, value, noRestore, flip) ==
  [op |-> "config", param |-> param, value |-> value,
   noRestore |-> noRestore, flip |-> flip]

\* The instructions of an exec buffer that matter here.
Instr ==
  [op : {"call"}, async : BOOLEAN] \cup
  [op : {"config"}, param : Params \cup {BadParam}, value : Nat,
   noRestore : BOOLEAN, flip : BOOLEAN]

ASSUME ConfigAssumption ==
  /\ NumValues \in Nat \ {0}
  /\ IsFiniteSet(Params)
  /\ BadParam \notin Params
  /\ Global \subseteq Params
  /\ Unreadable \subseteq Params
  /\ BootValue \in [Params -> Value]
  /\ Programs \subseteq Seq(Instr)
  /\ None \notin Value
  /\ "vm" \notin Procs
  /\ {SlowCalls, MayDie} \subseteq BOOLEAN

VARIABLES
  sysctl,   \* the sysctl files: of the VM and of each process' namespace
  pc,       \* where the test process is in execute_one
  prog,     \* the instructions it has not executed yet
  running,  \* its calls that have been started and have not returned
  sel,      \* the value the current action is about to write
  saved,    \* kconfuzz_saved_values; None when not kconfuzz_saved_valid
  order,    \* kconfuzz_saved_order, up to kconfuzz_saved_count
  entry,    \* history: what the program found in each sysctl
  unsaved   \* history: the sysctls it wrote without saving them first

vars == <<sysctl, pc, prog, running, sel, saved, order, entry, unsaved>>

Home(p, q) == IF q \in Global THEN "vm" ELSE p

Read(p, q) == sysctl[Home(p, q)][q]

\* write_file: the kernel takes the value or refuses it.
WriteFile(p, q, v) ==
  sysctl' = IF <<q, v>> \in Refused
              THEN sysctl
              ELSE [sysctl EXCEPT ![Home(p, q)][q] = v]

-----------------------------------------------------------------------------
(* The fork loop: one test process per program.                            *)

Init ==
  /\ sysctl  = [h \in Procs \cup {"vm"} |-> BootValue]
  /\ pc      = [p \in Procs |-> "idle"]
  /\ prog    = [p \in Procs |-> <<>>]
  /\ running = [p \in Procs |-> 0]
  /\ sel     = [p \in Procs |-> 0]
  /\ saved   = [p \in Procs |-> [q \in Params |-> None]]
  /\ order   = [p \in Procs |-> <<>>]
  /\ entry   = [p \in Procs |-> BootValue]
  /\ unsaved = [p \in Procs |-> {}]

\* The child starts with the zeroed kconfuzz_saved_* arrays of its parent.
Fork(p) ==
  /\ pc[p] = "idle"
  /\ \E P \in Programs : prog' = [prog EXCEPT ![p] = P]
  /\ pc'      = [pc EXCEPT ![p] = "exec"]
  /\ running' = [running EXCEPT ![p] = 0]
  /\ saved'   = [saved EXCEPT ![p] = [q \in Params |-> None]]
  /\ order'   = [order EXCEPT ![p] = <<>>]
  /\ entry'   = [entry EXCEPT ![p] = [q \in Params |-> Read(p, q)]]
  /\ unsaved' = [unsaved EXCEPT ![p] = {}]
  /\ UNCHANGED <<sysctl, sel>>

\* The watchdog of the loop kills a test process that stopped completing
\* calls, or the program itself leaves (exit_group): nothing is restored.
Die(p) ==
  /\ MayDie
  /\ pc[p] # "idle"
  /\ pc' = [pc EXCEPT ![p] = "idle"]
  /\ UNCHANGED <<sysctl, prog, running, sel, saved, order, entry, unsaved>>

\* The runner replaces a process whose fork loop itself is stuck; the new
\* one sets up its sandbox again and gets a fresh network namespace.
Respawn(p) ==
  /\ MayDie
  /\ pc[p] # "idle"
  /\ pc'     = [pc EXCEPT ![p] = "idle"]
  /\ sysctl' = [sysctl EXCEPT ![p] = BootValue]
  /\ UNCHANGED <<prog, running, sel, saved, order, entry, unsaved>>

-----------------------------------------------------------------------------
(* execute_one: calls.                                                     *)

\* A call returns before the next instruction, or keeps running on its
\* thread because it is async or takes longer than its timeout.
RunCall(p) ==
  /\ pc[p] = "exec"
  /\ prog[p] # <<>>
  /\ Head(prog[p]).op = "call"
  /\ prog' = [prog EXCEPT ![p] = Tail(@)]
  /\ \/ /\ ~Head(prog[p]).async
        /\ UNCHANGED running
     \/ /\ Head(prog[p]).async \/ SlowCalls
        /\ running' = [running EXCEPT ![p] = @ + 1]
  /\ UNCHANGED <<sysctl, pc, sel, saved, order, entry, unsaved>>

\* handle_completion of a call that is done.
CallReturns(p) ==
  /\ pc[p] # "idle"
  /\ running[p] > 0
  /\ running' = [running EXCEPT ![p] = @ - 1]
  /\ UNCHANGED <<sysctl, pc, prog, sel, saved, order, entry, unsaved>>

\* kconfuzz_wait_for_running_calls, and the wait at the end of the program:
\* both give up after a bounded time.
CallsSettled(p) == running[p] = 0 \/ SlowCalls

-----------------------------------------------------------------------------
(* kconfuzz_apply_config_action, one step per access to the file.          *)

Current(p) == Head(prog[p])

AtAction(p) ==
  /\ pc[p] = "exec"
  /\ prog[p] # <<>>
  /\ Current(p).op = "config"

BadAction(a) ==
  \/ a.param \notin Params
  \/ ~a.flip /\ a.value >= NumValues

SkipAction(p) ==
  /\ AtAction(p)
  /\ CallsSettled(p)
  /\ BadAction(Current(p))
  /\ prog' = [prog EXCEPT ![p] = Tail(@)]
  /\ UNCHANGED <<sysctl, pc, running, sel, saved, order, entry, unsaved>>

\* Only the first restorable action on a sysctl saves its value.
ResaveAlways(p, a) == ~a.noRestore
NeedsSave(p, a) == ~a.noRestore /\ saved[p][a.param] = None

OrderHasRoom(p) == Len(order[p]) < Cardinality(Params)

\* The first restorable action on a sysctl reads its value back and notes
\* it; an action goes on without a saved value when the file is unreadable.
SaveOriginal(p) ==
  /\ AtAction(p)
  /\ CallsSettled(p)
  /\ ~BadAction(Current(p))
  /\ LET q == Current(p).param IN
       IF NeedsSave(p, Current(p)) /\ q \notin Unreadable
         THEN /\ saved' = [saved EXCEPT ![p][q] = Read(p, q)]
              /\ order' = IF OrderHasRoom(p)
                            THEN [order EXCEPT ![p] = Append(@, q)]
                            ELSE order
         ELSE UNCHANGED <<saved, order>>
  /\ pc' = [pc EXCEPT ![p] = "select"]
  /\ UNCHANGED <<sysctl, prog, running, sel, entry, unsaved>>

\* The value to write: a flip takes the listed value after the current one.
UnclampedFallback(a) == a.value
Fallback(a) == IF a.value >= NumValues THEN 0 ELSE a.value

FlipPastEnd(v) == v + 1
FlipToSame(v) == v % NumValues
FlipFrom(v) == (v + 1) % NumValues

Selected(p, a) ==
  IF ~a.flip THEN a.value
  ELSE IF a.param \notin Unreadable /\ Read(p, a.param) \in Legal
         THEN FlipFrom(Read(p, a.param))
         ELSE Fallback(a)

SelectValue(p) ==
  /\ pc[p] = "select"
  /\ sel' = [sel EXCEPT ![p] = Selected(p, Current(p))]
  /\ pc'  = [pc EXCEPT ![p] = "write"]
  /\ UNCHANGED <<sysctl, prog, running, saved, order, entry, unsaved>>

WriteValue(p) ==
  /\ pc[p] = "write"
  /\ LET q == Current(p).param IN
       /\ WriteFile(p, q, sel[p])
       /\ unsaved' = IF saved[p][q] = None /\ <<q, sel[p]>> \notin Refused
                       THEN [unsaved EXCEPT ![p] = @ \cup {q}]
                       ELSE unsaved
  /\ prog' = [prog EXCEPT ![p] = Tail(@)]
  /\ pc'   = [pc EXCEPT ![p] = "exec"]
  /\ UNCHANGED <<running, sel, saved, order, entry>>

-----------------------------------------------------------------------------
(* The end of execute_one.                                                 *)

EndProgram(p) ==
  /\ pc[p] = "exec"
  /\ prog[p] = <<>>
  /\ CallsSettled(p)
  /\ pc' = [pc EXCEPT ![p] = "restore"]
  /\ UNCHANGED <<sysctl, prog, running, sel, saved, order, entry, unsaved>>

\* One round of kconfuzz_restore_config_actions, last saved first.
RestoreOne(p) ==
  /\ pc[p] = "restore"
  /\ order[p] # <<>>
  /\ LET q == order[p][Len(order[p])] IN
       /\ IF saved[p][q] # None
            THEN WriteFile(p, q, saved[p][q])
            ELSE UNCHANGED sysctl
       /\ saved' = [saved EXCEPT ![p][q] = None]
  /\ order' = [order EXCEPT ![p] = SubSeq(@, 1, Len(@) - 1)]
  /\ UNCHANGED <<pc, prog, running, sel, entry, unsaved>>

Exit(p) ==
  /\ pc[p] = "restore"
  /\ order[p] = <<>>
  /\ pc' = [pc EXCEPT ![p] = "idle"]
  /\ UNCHANGED <<sysctl, prog, running, sel, saved, order, entry, unsaved>>

Step(p) ==
  \/ RunCall(p) \/ CallReturns(p) \/ SkipAction(p) \/ SaveOriginal(p)
  \/ SelectValue(p) \/ WriteValue(p) \/ EndProgram(p) \/ RestoreOne(p)
  \/ Exit(p)

Next == \E p \in Procs : Fork(p) \/ Step(p) \/ Die(p) \/ Respawn(p)

Spec == Init /\ [][Next]_vars

-----------------------------------------------------------------------------

Phases == {"idle", "exec", "select", "write", "restore"}

\* The types of the variables; a value about to be written is always one
\* the registry lists, so the late bad_value return of
\* kconfuzz_apply_config_action is never taken.
TypeOK ==
  /\ sysctl  \in [Procs \cup {"vm"} -> [Params -> Value]]
  /\ pc      \in [Procs -> Phases]
  /\ prog    \in [Procs -> Seq(Instr)]
  /\ running \in [Procs -> Nat]
  /\ sel     \in [Procs -> Legal]
  /\ saved   \in [Procs -> [Params -> Value \cup {None}]]
  /\ order   \in [Procs -> Seq(Params)]
  /\ entry   \in [Procs -> [Params -> Value]]
  /\ unsaved \in [Procs -> SUBSET Params]

\* kconfuzz_saved_order lists exactly the sysctls with a valid saved value,
\* each once: the array never overflows, the capacity check never drops an
\* entry, and restore reaches every saved value.
OrderMatchesSaved ==
  \A p \in Procs :
    /\ \A i, j \in DOMAIN order[p] : order[p][i] = order[p][j] => i = j
    /\ \A q \in Params :
         saved[p][q] # None <=> \E i \in DOMAIN order[p] : order[p][i] = q

\* No other process can touch this sysctl of p.
Isolated(p, q) == q \notin Global \/ Procs = {p}

\* A program that reaches the end of kconfuzz_restore_config_actions leaves
\* every sysctl that only it can touch as it found it, whatever it wrote in
\* between, unless it wrote it with NO_RESTORE (or could not read it) or the
\* kernel refuses to take the original value back.
RestoredAtExit ==
  \A p \in Procs, q \in Params :
    /\ pc[p] = "restore"
    /\ order[p] = <<>>
    /\ Isolated(p, q)
    /\ q \notin unsaved[p]
    /\ <<q, entry[p][q]>> \notin Refused
    => Read(p, q) = entry[p][q]

Writes(p) == pc[p] = "write" /\ pc'[p] = "exec"

\* A FLIP action the kernel accepts changes the value of a sysctl that only
\* the process touches: nothing happens between reading the current value
\* and writing the next one.
FlipToggles ==
  [][\A p \in Procs, q \in Params :
       /\ Writes(p)
       /\ Current(p).flip
       /\ Current(p).param = q
       /\ Isolated(p, q)
       /\ q \notin Unreadable
       /\ Read(p, q) \in Legal
       /\ <<q, sel[p]>> \notin Refused
       /\ NumValues > 1
       => sysctl'[Home(p, q)][q] # Read(p, q)]_vars

\* README: the executor "restores original values after each program
\* execution": with no program in flight the VM is configured as it booted.
OriginalValuesBack ==
  (\A p \in Procs : pc[p] = "idle") =>
    \A h \in Procs \cup {"vm"} : sysctl[h] = BootValue

=============================================================================
