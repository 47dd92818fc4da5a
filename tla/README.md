# rush-sh in TLA+

A formal model of the [rush shell](../src/README.md): TLA+ modules translated
from `src/src`, TLC configurations that check them on small instances, and
theorems that TLAPS checks for every value of the constants.

Contents: [the system](#the-system) · [modules](#modules) ·
[runs](#runs) · [bounds](#bounds) · [fairness](#fairness) ·
[proofs](#proofs) · [disagreements found](#disagreements-between-the-code-and-its-docs) ·
[not modelled](#what-is-not-modelled) · [plan](#plan)

## The system

rush is a POSIX-style shell in one process with two threads. The **signal
thread** (`main.rs:70`) sits in `signals.forever()` and does nothing but
`enqueue_signal` (and set `SHUTDOWN` for SIGTERM). The **main thread** reads
lines, turns them into a syntax tree and interprets it; all other state is its
own, in one `ShellState` that every builtin gets by `&mut`. Concurrency comes
from three places: the signal thread, the child processes, and trap handlers
that run in the middle of the main thread's work at its *safe points*
(`process_pending_signals`: before each prompt and after each command in the
interactive loop, before each line of a script, before each turn of a `for`).

| component | state | operations | talks to |
|---|---|---|---|
| job table (`state/jobs.rs`) | jobs by number, next number, current, previous; per job one status per process and an overall status | `allocate_job_id`, `add_job`, `remove_job`, `update_job_status`, `Job::update_status`, `parse_jobspec` | written by `&`, `wait`, `fg`, `bg`, SIGCHLD handling, notification |
| job builtins (`builtin_wait/fg/bg/kill/jobs.rs`) | locals only | the commands | kernel (`waitpid`, `kill`), job table |
| signals (`state/signals.rs`, `builtin_trap.rs`) | `SIGNAL_QUEUE` (100 events, oldest dropped), `trap_handlers` | `enqueue_signal`, `process_pending_signals`, `handle_sigchld`, `check_background_jobs`, `trap` | signal thread → queue → main thread → executor |
| main loop (`main.rs`) | `SHUTDOWN`, `exit_requested`, `exit_trap_executed`, collected here-document | command, script, interactive and piped mode; `execute_exit_trap` | everything |
| descriptor table (`state/fd_table.rs`, `executor/redirection.rs`) | `fds`, `saved_fds`, and the process's real descriptors | open, duplicate, close, save/restore, deep clone, redirect | builtins, groups, subshells, children |
| pipelines (`executor/command.rs`, `executor/async_exec.rs`) | pipes, process group, pids | foreground and background execution | kernel, job table, descriptor table |
| subshells (`executor/subshell.rs`) | a clone of `ShellState`, depth | `execute_subshell`, compound commands in pipelines | all of `ShellState` |
| interpreter (`executor/mod.rs`) | break/continue/return/exit flags, loop and function depth, errexit context flags | `execute` | all |
| script engine (`script_engine.rs`) | block kind and depth counters, quote state | `execute_line`, `execute_script` | lexer, parser, interpreter |
| variables (`state/mod.rs`, `unset`, `export`, `declare`) | globals, local scopes, exported set | get, set, unset, export, local | expansion, children's environment |
| options, directory stack, umask, aliases | small maps | `set`, `pushd`/`popd`, `umask`, `alias` | |
| lexer, parser, brace/parameter/arithmetic expansion | none (functions) | | |
| line editing, completion, help, display settings | user interface | | |

How a line becomes commands: `execute_script` collects lines into a block
(script engine), `execute_line` lexes it (which expands `${...}` and `~`),
expands the alias at its start and its braces, parses the tokens into a tree
and hands that to `execute`; a simple command expands its own words when it
runs. The modules follow that way: `ScriptEngine` and `Parser` on tokens,
`Words` on characters, `Executor` on trees.

What is hard in this code, and what would make each part correct:

* **Job control.** Three callers of `waitpid` (the SIGCHLD handler, `wait`,
  `fg`) compete for reports that the kernel gives once; SIGCHLDs coalesce; two
  writers of a job's status do not know of each other. Correct means: no report
  is lost; Done only when every process was reaped, with the last stage's code;
  every ended job is eventually reported and removed; `wait` waits; `%+`, `%-`
  and `%n` keep their meaning.
* **Signals and exit.** A bounded queue that drops, a batch that is drained
  before it is handled, handlers that reach safe points themselves, a flag and
  an event set in two steps. Correct means: order, at most one run of the EXIT
  trap and at least one on every way out, no handler after `exit`.
* **Descriptors.** Save and restore nest (group, builtin in a group, group in a
  group), redirections can fail half-way, and the numbers the shell presents are
  not the numbers the process has. Correct means: a command leaves the
  descriptors as it found them.
* **Pipelines and subshells.** Stages are waited for in order, spawned in order
  and may fail in the middle; subshells run in the shell's own process.
  Correct means: no deadlock, no orphan, no leak of a subshell's changes.
* **Interpreter and script engine.** Flags that unwind nested constructs and
  counters that find the end of a block. Correct means: agreement with a
  reference semantics and with reference nesting.

`PROJECT.json` lists every hazard at its line with the properties that cover it.

## Modules

| module | models | checked by |
|---|---|---|
| `JobTable` | `state/jobs.rs`, with one disjunct of `JobTableNext` per kind of client | `MCJobTable` |
| `JobControl` | the kernel's side of child processes, the signal thread, the main thread's safe points, `&`, `wait`, `fg`, `bg`, `kill`, foreground commands; extends `JobTable` | `MCJobControl` |
| `JobControlProofs` | inductive invariants and theorems of `JobTable` and of `JobControl`, the refinement of the one by the other | TLAPS |
| `SignalDelivery` | what the signal queue promises: the abstract specification of `MainLoop` | |
| `MainLoop` | the signal thread and the loops of `main.rs`, `state/signals.rs` (queue, safe points, EXIT trap), `builtin_trap.rs` | `MCMainLoop` |
| `MainLoopProofs` | types, the fate of every signal, the refinement of `SignalDelivery`, `$?` at safe points, the EXIT trap | TLAPS |
| `Executor` | `executor/mod.rs`, `executor/subshell.rs`, the builtins that set its flags, and its callers from `execute_script` to the EXIT trap | `MCExecutor` |
| `ShellSemantics` | what a script means, as a function that knows no flags; the reference `Executor` is compared with | `MCExecutor` |
| `ExecutorProofs` | inductive invariants of `Executor`: types, counters, returns; break, continue, return and exit are carried out, with no command in between | TLAPS |
| `Parser` | `parser/mod.rs`, `parser/control_flow.rs`: functions from tokens to trees | `MCLanguage` |
| `ScriptEngine` | `execute_script` of `script_engine.rs`, over `Parser` | `MCLanguage` |
| `ShellGrammar` | how a tree is written, on one line or several; the reference of the two | `MCLanguage` |
| `Characters` | quotes, blanks, digits, keywords | |
| `ParameterExpansion` | `parameter_expansion.rs` | `MCWords` |
| `Lexer` | `lexer/mod.rs`, `expand_aliases`: one action per arm of the match | `MCWords` |
| `LexerProofs` | the lexer advances; aliases come to an end | TLAPS |
| `BraceExpansion` | `brace_expansion.rs` | `MCWords` |
| `Arithmetic` | `arithmetic.rs` at a width of `WIDTH` bits | `MCWords` |
| `WordExpansion` | `executor/expansion.rs` | `MCWords` |
| `Words` | the way of a line through the six above | `MCWords` |
| `Descriptors` | `state/fd_table.rs`, `executor/redirection.rs`, the descriptors of `executor/command.rs`, `executor/subshell.rs` and `execute_builtin` | `MCDescriptors` |
| `OneAfterAnother` | `InOrder` of `Descriptors`, and `FoldLeft`, for any step: a chain of results | TLAPS |
| `DescriptorsProofs` | the ledger of open numbers, the streams and the table: operations of the table, redirections, external commands | TLAPS |
| `ConstructsProofs` | the same for constructs within one another and every action; nothing is left at the end, and the saved copies stay intact | TLAPS |
| `CommandsProofs` | what stages and subshells hold open for those within; builtins and external commands find what is meant | TLAPS |

### JobTable

`jobs` is a function from job numbers to records with the fields of `struct
Job` that carry state. `Done(c)` is the code `c` itself, `None` is `NoJob` or
`NoCode`. Command lines are model values; a `%string` or `%?string` jobspec is
the set of command lines it matches, so that both search rules (first active
match in order of number) are checked for every matching relation.
`UpdateJobStatus` is `update_job_status` with the aggregation of
`recompute_job_status` in `Aggregate`; `SetJobStatus` is the direct
`update_status` of `bg` and `fg`, which leaves `pid_status` as it was.
`JobTableNext` gives each client its guard: a job is removed only when Done
(`check_background_jobs`, `fg`), overwritten only when not.

### JobControl

The kernel keeps for each process `free → running ⇄ stopped → zombie → reaped`,
the stops not yet reported (`news`) and one pending SIGCHLD. `SignalThread`
turns it into a CHLD in `SIGNAL_QUEUE`; `Interrupt` puts an INT there, at any
time and any number of them. A full queue drops its oldest event for a new one
(`QueueWith`), and that may be the CHLD: then waitpid has something to report and
nobody will ask, until the next SIGCHLD. `since_chld` counts the INTs since the
last CHLD, so that the properties can say exactly when this may be so (`Crowded`).
TERM, which ends the shell, is left to `MainLoop`. The main thread's `pc` is at
a safe point (`top`, `after`), in `handle_sigchld`'s loop (`reap_*`), in
`check_background_jobs` (`notify`), at the prompt, or blocked in a foreground
command, `wait` or `fg`. Each turn of a loop around `waitpid` is one step, so
children change state between any two of them. `Interactive` chooses between
the loop of `main.rs:155` and `execute_script`; `Commands` restricts what the
user gives, so that a run can isolate one cause.

`wait %n` goes through the processes of its job; waitpid refuses one that was
already reaped (`WaitNotAChild`), which is an answer of 127. `asked` remembers
which processes no waitpid had reported when `wait` was given.

`fg` ends in `panicked` when the job it waited for is Done: `remove_job` is
called inside a `match` whose scrutinee still borrows the table.

`JobControl` extends `JobTable`, its state is the same variables, and
`JobTableSpec` is checked as a property: every step of job control is a step
of the table's specification or leaves the table alone. That carries the
theorems about the table over to the composed system; `JobControlProofs` proves
it for every value of the constants.

### Executor

The code is one recursive function, `execute`, and break, continue, return,
exit and errexit do not unwind it: they set fields of `ShellState`, and each
construct looks at some of them after each of its parts. The model makes the
recursion explicit. `stack` has a frame for each construct of which a part is
being executed; `focus` is what happens next: a tree to execute, a result to
hand to the construct on top, a loop's next turn, or nothing (`Idle`, between
lines). There is one action for entering a construct and one for each place
where it gets a result back, so an early return of the code is a disjunct that
leaves (`Leave`) and sets the same fields.

`shell` has the fields of `ShellState` that steer control. The booleans
`breaking`, `continuing` and `returning` are represented by a level or value
that is not the neutral one; the code always changes them together. A simple
command is a name. Its status is any of `Code`; if a function of that name is
defined, it is a call. `MayFailToStart` adds the early returns of
`execute_single_command` (no such program, bad redirection, failed wildcard).
A `for` loop keeps how many items are left. `EnterSubshell` sets the whole
`ShellState` aside in its frame, as the code runs the subshell on a clone, and
`AfterSubshell` puts it back with the new status. Safe points are `StartLine`
and `ForTurn`: `HandlerExit` has the codes that the handler of a pending signal
may exit with, `Shutdown` says whether SIGTERM may come. `log` is auxiliary: it
records which commands ran with which status.

| actions | code |
|---|---|
| `RunCommand`, `Call`, `AfterCall`, `Define` | `execute_single_command` in `executor/command.rs`; the arms `FunctionDefinition` and `FunctionCall` |
| `Break`, `Continue`, `Exit`, `Return` | `builtin_break.rs`, `builtin_continue.rs`, `builtin_exit.rs`; the arm `Return` |
| `EnterSequence`, `AfterPart` | `Ast::Sequence`, with `check_errexit` of `executor/mod.rs` |
| `EnterIf`, `AfterCondition`, `EnterChain`, `AfterLeft`, `AfterRight`, `EnterNegation`, `AfterNegated` | the arms of `execute` of that name |
| `EnterFor`, `ForTurn`, `EnterWhile`, `WhileTurn`, `AfterLoopCondition`, `AfterBody` | the arms `For`, `While`, `Until` |
| `EnterSubshell`, `AfterSubshell` | `executor/subshell.rs` |
| `StartLine`, `AfterLine`, `StartExitTrap`, `AfterExitTrap`, `EndWithoutTrap` | `script_engine.rs`, `state/signals.rs` (EXIT trap), the end of `main` |

`ShellSemantics` says what a tree means: how it ends and which part of the log
it accounts for, by recursion on the tree, with no flag anywhere; POSIX's rule
for errexit is one field `tested` of the environment. `RunsAsItMeans` compares
the two at the end of a script: the same commands in the same order, the same
way of ending, the same status.

### MainLoop and SignalDelivery

`Deliver` is the kernel: a set of pending signals, since the same one twice is
one. `SignalThread` moves one to `SIGNAL_QUEUE`; for TERM it is two steps, the
flag `SHUTDOWN` and then the queue, as in `main.rs:80`. `phase` says where the
main thread is in the loops of command, script and interactive mode. A safe
point takes the whole queue as its batch (`SafePoint`), then handles event by
event; a trap handler runs commands, which may reach safe points of their own
(`ForTurn`, `EndLine`) with younger events. So `safe_points` is a stack of
batches. A command is a plain one, `exit`, `trap`, or a turn of a `for`.
`Pasted` and `Collect` are the lines of one paste and of a here-document, and
`execute_exit_trap` is called from the two places of the code.

`received`, `taken` and `dropped` are auxiliary numbers of signals. With them
`Delivers` states that the whole is a `SignalDelivery`: `waiting` is what the
queue holds, every step of `MainLoop` receives, takes everything, or does
neither.

### Parser, ScriptEngine and ShellGrammar

The parse functions are functions from a sequence of tokens to a tree, `Err`
or `Hang`; the last is what the code does when no branch consumes a token. A
token is one string, a word one of a few. `ScriptEngine` collects lines into
`current_block` by the counters of the code (`depth`, `in_block`, `in_quote`)
and gives each complete block to `Parser`; `ran` has the trees it executed.

`ShellGrammar` goes the other way: it writes a tree in a layout.
`RunsAsWritten` says that what was written is what is executed, exactly for the
programs and layouts of `Supported` in `MCLanguage`: for each of the others TLC
also checks that the program gets it wrong, so the list is neither too short nor
too long.

### Lexer, expansions and Words

A character is a string of one character, `bq` and `nl` stand for the backquote
and the newline. Each arm of the lexer's `match` is an action that consumes at
least what it looked at; the four flags of quotes are variables, as in the code.
Parameters are expanded by the lexer (`Parameter`), variables when the command
runs (`RunCommand`), and `EarlierCommand` may assign in between.

The lines of `MCWords` are made from their meanings. What the program does not
do as a shell does is named there (`QuotesForgotten`, `ItemsLost`,
`BeforeOperator`, `SupportedRedirection`, `SupportedParameter`,
`SupportedBraces`, `SupportedArithmetic`) and left out of the properties; all of
it is still executed by the model.

### Descriptors

`d.open` is the kernel's table of the process: what each number is open on, the
lowest free number being handed out next; `d.cloexec` the numbers that do not
survive `execve`. `d.fds` and `d.saved_fds` are the shell's table, `d.child` a
`Command` under preparation. Every operation is an operator from such a record
to such a record, so that a sequence of redirections is a fold that stops at the
first failure. Files that are dropped close their number, as in Rust. A
`HashMap` is walked in any order (`Orders`).

`stack` has a frame per group, subshell, captured subshell, pipeline and stage.
The actions are what is executed within: an external command, a builtin
(with its own output or a captured one), redirections without a command, and
entering and leaving each construct; an external command in a pipeline and
outside differ in the conditions of `WithStdin`, `WithStdout` and `CustomFds`.

`MCDescriptors` has what each command should find: an environment from
descriptors to what they are open on, folded over the constructs (`Within`) and
redirections. `Lost...` and `StaysChanged` name where the program does
otherwise; a run ends with such a step, and every property speaks of what comes
before one.

## Runs

| run | question | result |
|---|---|---|
| `numbers` | do `%+`, `%-`, `%n` and patterns keep their meaning under every order of additions and removals? | holds |
| `table` | interactive shell, every command: when is a child's report lost? is the table used only as `JobTable` says? | only if as many SIGINTs as the queue holds come between its CHLD and the next safe point; yes |
| `all` | script, three processes: is Done honest, whoever reaped? do `bg` and `fg` lose a completion or its code? does `wait %n` answer the last stage's code? | holds; `wait %n` answers 127 instead only if a process of the job had been reaped before it was given |
| `script` | without `fg`: is a job whose processes were all reaped Done? do `wait` and `wait %n` wait for every job of one process? | yes; yes |
| `notify` | is every ended job eventually reported and removed? | yes, under fairness, unless SIGINTs crowd out its CHLD |
| `control` | does each script with a jump in a body run as it means to, from every depth, and leave no flag set and no counter off? does a command run while a jump is carried out? | yes; never |
| `errexit` | under `set -e`, does a failing command end the shell exactly where it should? | yes |
| `signals` | is every received signal queued, taken once or dropped as the oldest, in order, however handlers nest? is `$?` the same after a handler? does the EXIT trap run once on every way out? does SIGTERM end the shell, and is every signal taken? | yes; the last two under fairness |
| `language` | are scripts executed as written, whatever their layout, strings, comments and here-documents? which lines make the parser spin? | exactly those of `Supported`; those with stray brackets or `&` only |
| `words` | do words, redirections, aliases, parameters, braces and arithmetic mean what a shell's grammar says? | yes, but for what `MCWords` names |
| `descriptors` | does every command find on its descriptors what was written? do the saved copies survive everything within a group, stage or subshell? is nothing left at the end? | yes, but for what `MCDescriptors` names |
| `fg` | see [below](#disagreements-between-the-code-and-its-docs) | violated |

Every property of a passing run has a mutant: a definition of the model changed
the way a plausible slip would (the operators commented `Slip:` before their
originals), with which TLC finds the property violated.

## Bounds

`MaxJobId` bounds the numbers handed out (guard of `AddJob`), `MaxStages` the
processes of a job, `Pid` the processes ever started (an identifier is used
once, guard `proc[p] = "free"`).

* `numbers`: four jobs, one process, two command lines. Three live jobs are the
  fewest for which removing one from the middle differs from removing the
  current or the previous one; the fourth is added afterwards.
* `all`, `script`: three processes make a pipeline and a single job, or three
  starts; two processes of one job are the fewest for which "any", "all" and
  "last" differ; two jobs make `wait`'s list have a rest.
* A queue of two events in `table` and `notify` (100 in the code), the fewest
  for which a CHLD may be dropped or have an INT before it; of one elsewhere.
* Two exit codes, one of them `Signalled` (128 + n), tell apart which process a
  code came from.
* `control`: every jump (`break` and `continue` of one and two levels, `return`
  and `exit`) directly in a body, in a branch, on the right and the left of a
  list, in a subshell; each such body alone, in a `for`, in a `for` in a `for`,
  in a `while`, in a `while` in a `for` or an `until`, and each of these at top
  level and in a function; a function called in a loop, recursion past its
  limit, subshells past theirs, an unparsable line. Two loops are the fewest for
  which a level of two leaves something, two turns the fewest for which a flag
  that stays set changes a later turn. A command's status is chosen each time it
  runs; `MaxCommands` cuts runs off (a run that was cut off is not compared).
* `errexit`: a command, a negation, a sequence and a subshell as the condition
  of `if`, `while` and `until`, in a subshell and negated; each of these at top
  level, in a loop, in a function and in a subshell; a function called in a
  condition. An assumption of `MCExecutor` has TLC check that these scripts have
  plain conditions, the hypothesis of `JumpsEnd` and `JumpsSkip`.
* `signals`: a queue of two and three signals in script modes, so that one is
  dropped; two different signals; two commands per line or handler; handlers
  one level within a handler (`MaxNesting`), the fewest with a younger batch
  handled before an older one is done. In the interactive mode, with its many
  inputs, one signal. `trap` sets, resets and lists, also with a name that
  does not exist before one that does.
* `language`: every construct around every kind of command and list, every
  construct in every construct with something before or behind it, in three
  layouts; all lines of up to four tokens of ten kinds, the shortest in which a
  bracket can be stray with a command on both sides.
* `words`: every kind of part alone before every separator, every two parts of
  different quotings before some; each redirection operator with eight words
  before it and six files; patterns of up to three characters; every pair of the
  ten levels of binary operators with both shapes of the tree. `WIDTH` is 6, the
  least that holds the values; results outside it are left out.
* `descriptors`: 35 sequences of redirections, at most three long, with every
  operator, files that are there, are not, and cannot be opened; constructs
  three deep (`MaxDepth`), so that a stage's body is a construct with a command
  in it, or a subshell stands between two groups. Numbers 3 and 4 are taken by
  the signal thread's sockets (`Internal`). A view leaves out `event`, which no
  step reads.
* `MaxRecursionDepth` (500 in the code by default) and `MaxSubshellDepth` (100)
  are two, so that both limits are reached.

Some scripts are left out of `control` and `errexit`, because there the code
does not do what the script means, and a run has room for one answer:

* a jump inside the *condition* of an `if`: only the condition's status is
  looked at (`executor/mod.rs:188`), so a branch is still taken; and likewise
  inside a negated command; a `break` or `continue` inside the condition of a
  loop, which stays pending when the condition ends the loop (`until break`,
  `executor/mod.rs:448`);
* under `set -e`, a condition or a list *inside* a condition: the flags are
  cleared, not restored, when the inner one ends (`executor/mod.rs:189`); and
  lists as part of a sequence (see [below](#disagreements-between-the-code-and-its-docs));
* `exit` without an operand after another command of the same line: `$?` is
  the status of the previous line (`builtin_exit.rs:31`);
* a command that cannot be started, under `set -e`: it does not end the shell
  (`executor/command.rs:546`, against `README.md:1909`).

Symmetry is used over processes (and command lines in `numbers`) in runs of
safety properties only, never where a liveness property is checked.
Deadlock is checked in `numbers` and `notify`; in the latter a SIGINT can always
come, and it is the liveness property that says that the shell goes on.
Elsewhere the system really may stop: the identifiers are used up, `wait` blocks on a stopped job, `fg`
panicked, the script or the shell has ended, the line has been run, or a step of
`descriptors` was the last one.

## Fairness

`FairSpec` has weak fairness of three things. `SignalThread`: a thread of its
own in a blocking iterator, nothing disables it. `SafePoint`: the main thread
runs on by itself between prompts. `Query`: the user, or the next line of the
script, gives another command; without it an interactive shell sits in
`readline` and reports nothing, which is what the code does. No fairness is
assumed of children, of `kill` or of `wait` and `fg`, which can block for
ever; `notify` leaves the latter two out for that reason.

`Spec` of `MainLoop` has weak fairness of `SignalThread`, for the same reason,
and of `MainThread`: it runs on while it has something to do, and every line and
handler has a bounded number of commands (a command that never ends is left out;
with it the code promises nothing). There is none of `Deliver` and `Terminal`:
no signal has to come and no user has to type, so `TermEnds` and
`SignalsAreTaken` hold up to the shell's sitting in `readline`.

`Executor`, `ScriptEngine`, `Words` and `Descriptors` have safety properties
only, and no fairness: a script may loop for ever, and a command may never end.
That the lexer and the expansion of aliases end is stated without it, by what
every step uses up (`LexerAdvances`).

## Proofs

### The job table

`JobControlProofs` proves first of the table by itself, for any number of
processes, codes, command lines, stages and jobs, from the assumptions
`CodesAssumption` (codes are not the names of the other two states) and
`BoundsAssumption`:

* `TypeCorrect`: the table keeps its shape,
* `CurrentAndPreviousHold`: `%+` and `%-` are the two latest jobs,
* `CompletionIsNeverLost` and `ExitCodesHold`: `AllDoneIsDone` and
  `ExitCodeAgrees`,
* `NumbersAreForeverHold`: no number is reused or changes its job,
* `JobspecsResolveHold`: `%n`, `%+`, `%-` and the two searches find a job of the
  table, a search an active one, or none.

The argument: `JobTableInv` conjoins the type invariant, `CurrentAndPrevious`
and `JobsOK` (each job on its own is well formed, keeps its completion and its
exit code). It is inductive because a job is only ever created by `NewJob`,
replaced by `WithPidStatus` (which recomputes everything from `pid_status`) or
replaced by `WithStatus` — and the last only while the job is active, whence
not all of its processes are recorded as done. That guard is the reason the two
writers do not lose a completion, and it is each client's guard in the code,
not one of the table's. The marks need that the numbers in the table are below
`next_job_id`, so that a new job is the latest. The lemmas about `Latest` say
that the greatest number of a bounded set exists and is unique.

### Job control

`JobControlProofs` then proves of job control, composed of the kernel, the signal
thread and the shell, for any number of processes, jobs, codes and any choice of
commands, from the assumptions of the two modules:

* `ControlTypeCorrect` and `ImplementsJobTable`: the types, and `Spec =>
  JobTableSpec`; `CompletionSurvives` is what that brings over from the table;
* `NoChildIsLost`: `NoLostChild`, for a queue of any size;
* `DoneIsTrue` and `DoneCodeIsLast`: `DoneMeansReaped` and `DoneWithLastCode`;
* `WaitAnswers`: `WaitAnswersLastCode`, with both ends of `wait %n`, the code of
  the last stage and 127;
* `ReapedIsDone`: `ReapedMeansDone`, if `fg` is not among the commands, as in the
  run `script`: `fg` does not record what it reaps;
* `WaitsForSingles`: `WaitAllWaitsForSingles`.

None of the last six is inductive. What a job says of its processes has to be
true (`Honest`): recorded as done means reaped, with that code. That survives a
report only because no process is in two jobs (`Disjoint`), so a report changes
one job, and because a new job has processes that were just started. A job that
is Done when `wait` or `fg` gets there may have been finished by
`handle_sigchld` while they were waiting, so the invariant says of each what is
left of its job: `wait %n` is before its job, within it with the last process
still to come, past it with the job's code, or at its end with 127
(`WaitSubject`); and what is left of the job and was not reaped when `wait` was
given is not reaped yet (`LeftToReap`), because only `wait` reaps while it runs,
and it goes through distinct processes. `fg` has reaped
what it has passed, unless it saw a stop (`FgSubject`), which is why it may call
the job Done. The kernel's part is that a process reaped stays so and keeps its
exit code (`Moves`). `NoLostChild` needs that a report makes a SIGCHLD pending in
the same step and that the queue is emptied before the first `waitpid`; and it
needs to know where in the queue the last CHLD is, since what is dropped is at
the other end: `since_chld` places before the last (`Heard`). There is
a lemma for each way to change the table (`JobReplaced`, `JobAdded`,
`JobRemoved`, `StatusOverwritten`), one for each kind of report, and one for
each group of actions. For `wait`, `WaitPromise` adds that a process it
was asked for has ended, or belongs to a job that `wait` has still to come to or
is at; that a plain `wait` begins with every active job is a counting argument
(`OrderIsComplete`).

### The executor

`ExecutorProofs` proves for any scripts, trees, statuses and limits, from
`ExecutorAssumption` (the types of the constants) and `TreeAssumption` (each
kind of tree has the parts it has):

* `TypeCorrect`: types, calls within the recursion limit, subshells within
  theirs, every loop condition directly above its loop;
* `DepthsCorrect`: `loop_depth` and `function_depth` are the numbers of loops
  and calls that are being executed, on every way out of them;
* `ReturnsCorrect`: a pending return has a call to end.

Counters that agree with the stack are not inductive. When a subshell ends, its
parent's `ShellState` comes back, with counters that were right when the
subshell began. So `IInv` also says of every subshell frame that the state set
aside in it agrees with the frames *below* that frame (`Balanced`), and that a
state with a pending return is inside a call, which makes `ReturnsCorrect`
follow by counting. That the frame of the EXIT trap is at the bottom, and a
condition above its loop, is what the types need. Every step changes the stack
in one of four ways: not at all, one frame more, one frame fewer, or a change
of the frame on top that leaves its kind. The lemmas `GoodSame`, `GoodPush`,
`GoodPop` and `GoodChange` show once for each that the invariant survives, from
what the step does to the counters; `SteadyExit`, `SteadyStatus` and
`SteadyFlags` show of the operations on `ShellState` that they leave the
counters alone. Then there is a lemma for each group of actions.

The second part goes on from there, for every script whose conditions are
plain:

* `JumpsEnd`: `NothingPending`, nothing is left of a `break`, `continue` or
  `return` when its line has ended;
* `JumpsSkip`: `NothingAfterJump`, no command runs while one of them, an `exit`,
  an exit by errexit or by a signal's handler is being carried out;
* `JumpsInductive`: the invariant both follow from.

The code has no unwinding: a jump sets a field, and every construct on its way
out has to look at the right fields in the right order. `JumpInv` is what makes
that enough. At most one of the four is set (`OneJump`), and its level is at
most `loop_depth` (`Steered`), so that the loops use it up before the line ends:
with `DepthsAgree`, level 0 at the bottom of the stack. What is about to be
executed is not executed while one is set (`Placed`), and the states that
subshells set aside have none (`Settled`).

`PlainConditions` is a hypothesis about the script: there is no jump, no `if`
and no loop in the same ShellState within a condition, in the functions it calls
neither. Without it the theorems are false, and the code is wrong: after `until
break; do true; done` `break_level` is 1 with no loop, and ends what comes next.
So of every condition that is open the invariant says that the frames within it
are of plain kinds and that `in_condition` is still set (`OpenTest`,
`Testing`), or errexit would make an exit of what is only a test. The functions
that a condition may call must be those that the script defines
(`FunctionsDefined`). That the hypothesis is not empty is checked by TLC:
`TestTreesArePlain` in `MCExecutor` says it of every script of the two runs.

### Signals

`MainLoopProofs` proves for every queue size, set of inputs and of trap calls,
and every bound, from `MainLoopAssumption`:

* `TypeCorrect`: among others, the queue never exceeds its size;
* `AccountsForEvents`: each signal received has one fate, and what is left of an
  outer batch is older than that of an inner one, which is older than the queue;
* `ImplementsDelivery`: `Spec => Delivers`, the refinement;
* `StatusIsKept`: `HandlersKeepStatus`, whatever handlers run, at any depth;
* `ExitTrapRunsOnce`: `ExitTrapOnce`, in every mode.

`EventsAccounted` is inductive together with the types: the queue and the
batches are increasing sequences of numbers, so that dropping the head and
appending the next number keep them so (`TailOrdered`, `AppendOrdered`), and a
safe point only moves the whole queue into a new innermost batch. The
refinement needs in addition that numbers and events of a queue correspond one
to one (`AsManyNumbers`: a full queue is a full `waiting`) and that the head has
the least number (`HeadIsOldest`). For `$?` the invariant says of every frame,
not only of the innermost, that a handler being run will put back what was there
before its safe point, and that all frames but the innermost are running one
(`FramesOK`). For the EXIT trap it says that a handler running when the shell is
about to end is the trap itself: it may set the trap again, but to no effect.

### The lexer

`LexerProofs` proves for every line and every table of aliases
(`AliasesAssumption`: the table is finite and an alias stands for a text):

* `LexerAlwaysAdvances`: `LexerAdvances`. Each turn of the loop leaves fewer
  characters, the one that refuses the line included, and the value of an alias
  is lexed at most once for every alias there is, so lexing ends on every line;
* `EachAliasOnce`: no alias is replaced twice for one line. The step from there
  to the number of aliases is `NoMoreThanAliases`, by counting.

The helpers read ahead with ideas of their own of where a word, a quote or a
parenthesis ends, so the lemmas bound what each consumes (`FirstIsPosition` for
the searches, `ConsumeShortens` for the rest), and there is one lemma per arm
that has such a helper.

### Descriptors

`DescriptorsProofs`, `ConstructsProofs` and `CommandsProofs` prove for any
redirections, any files, any numbers of the signal thread's sockets and constructs
within one another to any depth, from `RedirectionsAssumption` (redirections are a
sequence, each with one of the eight operators, of a descriptor of one digit, as
the lexer has it, and with a file's name where the operator opens one) and
`InternalAssumption` (the sockets are finitely many and above the
standard streams):

* `DescriptorsComeBack`: `NothingLeft`. When everything has ended, the shell has
  exactly the descriptors it started with, each open on what it was.
* `SavedCopiesIntact`: `SavedIntact`. While constructs are being executed the
  shell's streams are what the groups and stages around the next command say, and
  every copy that one of them will put back is open, on what its descriptor was.
* `CommandsFindWhatIsMeant`: `CommandsSeeWhatIsMeant`. A command runs exactly if
  none of its redirections means an error, and then finds on its descriptors what
  the constructs around it and its own redirections mean, from left to right; but
  for the redirections that `MCDescriptors` names as lost (`Lost`), as in the run.
* `AlwaysSound`: the invariant the first two follow from (`StreamsInv`): either the
  run has taken a step that `MCDescriptors` names as one that leaves something
  behind, or `Sound` holds, which is a ledger and, with it, steady streams.
  `AlwaysWhole` adds what the third needs (`Whole`: also `Decent` and `Kept`).

*The ledger.* `NothingLeft` speaks of one state in a long run; what is kept on the
way is a ledger. Of the state now and of the one in which the innermost subshell
was entered it says which numbers are open now and were not then, and whose each
of them is: the saved copy of a standard stream, a `File` of the table, or the
pipe of a construct that is being executed, exactly one of these and once
(`Accounted`); and that every other descriptor is open on what it was, and each
copy on what its descriptor was (`Contents`). While a `Command` is prepared its
streams and the numbers it keeps for its child are entries as well
(`HeldWith`). `Level` adds what the constructs say: the copies are those of one
group or stage, no two constructs have the same pipe, and the table has no
entries before the first group or stage. A subshell begins a ledger of its own,
since its table is a clone whose `File`s are new numbers and whose copies are
its parent's; so `Ledger` has one state for each construct (`Outer`), and
`ParentAgain` shows that `clear` at the end of a subshell leaves the parent's
ledger as it was.

That every number has one owner is what makes closing safe: a number that is
given up (`CloseReturns`) is nobody else's, and the lowest free number, which
the kernel hands out next, is in no ledger (`LowestIsFree`).

*The streams.* The ledger compares with earlier states and so cannot say what a
stream *is*: a copy that is intact may still be a copy of the wrong thing.
`Steady` says what each stream is open on, by the same fold over the constructs
that `SavedIntact` uses (`Fits`); that a pipeline contains a stage and nothing
else, and that within a stage with an input descriptor 0 is meant to be a pipe
(`Framed`), which no construct further in can redirect; and that the pipe which
waits for the next stage is open on a pipe (`NextInput`), without which the
stage's input would be anything that the number happens to be. Entering a group
or a stage copies the streams: `Fits` before the step is what the copies then
are, so `Outer` remembers `Fits` for each construct that has copies. From there
`CopiesIntact` follows a copy inwards: as long as the table is not cloned the
ledger has it, and past a subshell it is one of the descriptors that `Contents`
says are open on what they were, level by level (`SavedIntact` asks for the copies
of *every* construct, not of the innermost one). Leaving puts the copies back, so
the streams are those of one construct less. That redirections which are applied
to the shell do to its streams what their meaning says (`Redirected`) is a lemma
for each operator and then for the sequence.

Saving and restoring walk a `HashMap`; that each order has every descriptor once
(`OrderFacts`) gives the copies all made and all closed. `InOrder` and `FoldLeft`
are recursive and the library's induction cannot be instantiated with them, so
`OneAfterAnother` shows for any step that the results are a chain
(`ResultsInOrder`, `FoldInOrder`), and what holds of the first result and is kept
by each step holds of the last, by the least number at which it would not. Then
there is a lemma for each operation of the table, each redirection (of a builtin,
of the shell, of a `Command`), the two ways into a body (`PreparedKeeps`,
`CloneAllKeeps`) and one for each action, which shows `Sound` after it.

*What a command finds.* The ledger says whose a number is, and `Steady` what the
shell's streams are, but a command also finds what a pipeline or a captured
subshell collects, what a stage reads, and what the table says. So `Whole` has two
more parts. `Decent` says of the constructs themselves that a redirection of a
group or a stage never takes output which is collected further out, and that a
stage's output is collected exactly if it goes to the next stage, or all of it is
captured: the meaning folded over the constructs (`Within`) and the shell's
streams then differ in descriptor 1 only, and there by collected output only
(`Scope`). `Kept` says what each number that somebody further out relies on is open
on: the input of every stage on its pipe or on `/dev/null`, and the `File`s of
every table, of those that wait around a subshell as well, on what the streams
were meant to be when the table was left. It survives a step because such numbers
have an owner (`AwayApart`), and a step that keeps the ledger of whatever holds the
rest cannot touch them (`Undisturbs`): the frame rule of these proofs.

From there one command is followed. The redirections of a builtin change the table
only, so after the first *n* of them the table says of each descriptor what the
environment after *n* redirections does (`BuiltinPath`); a duplicate shares the
number it was made of, so the entry it was made of has to stay (`Copied`,
`Locked`; `LostByBuiltin` names the case in which the code closes it). An external
command has its streams in the `Command`, its other descriptors in the table, and
what was there before its redirections in both (`ChildPath`). `spawn` then gives the
child the streams and runs the `dup2` calls: none fails, since the numbers they are
made from are open in the child (`AllCallsSucceed`), none hits a number that a later
one is made from (`RawsApart`, without which `LostByExternal` holds), and all descriptors of the table are handed over
(`AllHandedOver`, `ChildSees`). That the command fails exactly when it should is part
of each step, from which files there are at that point (`SameFiles`).

TLC checked the ledger on the run `descriptors`, with the states of `Outer` as a
variable, before it was proved; the streams are what that run checks itself.

### Only model-checked

Liveness everywhere; `RunsAsItMeans` of `Executor`; all of `ScriptEngine`;
`Words` but for the lexer.
`RunsAsItMeans` and `RunsAsWritten` compare with recursive definitions, and the
parser and the expansions are recursive themselves, about which TLAPS cannot
reason; liveness under fairness is out of its reach as well.

## Disagreements between the code and its docs

Shown by a run of its own: `fg`. Removing the finished job panics on a
`RefCell` borrow (`builtin_fg.rs:90` and `:119`), against `builtin_fg.rs:118`.

Named in the models, and left out of what the passing runs claim:

*Jobs.* `wait` gives up on a job of several processes at its first one that was
already reaped, when the job is not Done: `wait %n` answers 127 though later
stages still run (`builtin_wait.rs:91`, against `README.md:171`), and `wait`
without operands goes on to the next job (`builtin_wait.rs:134`, against
`docs/usage.html:451`). A CHLD that 100 SIGINTs push out of the queue before the
next safe point is lost (`state/signals.rs:221`): the job it was about is neither
reported nor removed until another child changes state. `fg` does not record the exits it reaps, so if another
process of the job then stops, the job never becomes Done. `bg` leaves the
processes' status at Stopped, so that the next report makes a running job
Stopped. `bg` and `fg` do not make a job the current one (`state/jobs.rs:266`).

*Exit.* After `exit`, an EXIT trap of two commands runs the first only, since
`exit_requested` is still set and ends the sequence (`main.rs:365`, against
`README.md:1098`). `main` never looks at `exit_code`: the process ends with 0
(against `state/mod.rs:108`). The interactive loop never looks at
`exit_requested` (`main.rs:306`), and an `exit` within a paste runs the EXIT trap
and leaves only the paste. SIGTERM is seen between lines, not within one, and
within a sourced file not at all. `trap` accepts names of signals that the
signal thread does not listen to (`README.md:1131`).

*Control flow.* Under `set -e`, `a && b; c` with a failing `a` ends the shell:
the list resets `in_logical_chain` before its enclosing sequence looks at it
(`executor/mod.rs:626`, against `executor/mod.rs:164`). [Bounds](#bounds) lists
what else is left out of `control` and `errexit`.

*Blocks and parsing* (`Supported`, `Misparsed`, `KeepsInside` in `MCLanguage`). A
closing bracket without an opening one, `&` without a command and a function
definition followed by `&` make the parser spin (`parser/mod.rs:1280`). A group
on several lines never closes (`script_engine.rs:349`); within a construct on
several lines, a construct of another kind ends it early. An arm of a `case` has
one list of commands, and a `case` ends at the first `esac`
(`control_flow.rs:383`); a `while` or `until` in a `for` is an error
(`control_flow.rs:507`, against `README.md:939`); `(a) && b || c` groups to the
right (`parser/mod.rs:852`); nothing may follow a function definition on its
line; a line is not continued by a backslash.

*Words* (`MCWords`). What was quoted is forgotten before a word is expanded, so
`'$x'` and `"*"` are expanded at run time; operators neither read nor reset the
flags of quotes, so `"done";` is a keyword (against the comment at
`lexer/mod.rs:32`); `${x}` is expanded before the earlier commands of its line
have run; an apostrophe between double quotes is dropped; a digit at the end of
any word is taken for a descriptor (`echo a1>f`); `cd ~; ls` takes `;` for part
of a user's name; there is no splitting of expanded words. `${x:=w}` never
assigns, `${u:?w}` is no error, `${v/p/r}` replaces all. Of several brace
patterns in a word, the text between is lost. In arithmetic `!` is the bitwise
complement (`README.md:706`), there is no unary minus, and both sides of `&&`
and `||` are evaluated.

*Descriptors* (`Lost...`, `StaysChanged`, `CopiesInUse` in `MCDescriptors`).
There is one saved copy per descriptor, so a builtin in a redirected group
restores too early: after `{ pwd; } >f`, the shell's own output is on `f`
(`fd_table.rs:252`, against `README.md:1451`). `>f` alone redirects the shell for
good. `2>&1` on an external command changes only the table, which the child does
not get (against `README.md:1366`) and the next builtin does; and so does
every descriptor above 2. `cmd 6>f` is lost when `f` was opened on 6 itself.
With `-C`, a group cannot be redirected to a new file
(`redirection.rs:497`), and builtins ignore the option. A subshell looks at
none of its redirections but `>` and `>>`, and with those at no others
(`README.md:252`); a builtin whose output is collected looks at none.
A duplicate is looked up in the table: an external command's other redirections
are not there yet, nor is the input of a stage; and it is a number, which names
nothing, or something else, once its source is replaced (`3>f 1>&3 3>&-`). A
duplicate onto itself succeeds though the descriptor is closed
(`fd_table.rs:179`). A builtin does nothing about `<<` (`redirection.rs:340`). An
external command's `1<f` is carried out in the child, after every `>`. A
stage's explicit `1>|` is not counted as a redirection of its output
(`subshell.rs:327`), which is collected for the next stage instead.

*Seen while modelling, not in a model.* A stage of a pipeline within a command
substitution gives its output both to the next stage and to the substitution
(`subshell.rs:473`), so that `$( (echo a) | cat )` is `a` twice. A
here-document longer than a pipe's buffer blocks the shell
(`redirection.rs:652`), and so does a stage that fills its pipe. `unset` ignores
local scopes and the environment, and a child gets variables that were unset.

## What is not modelled

In `JobTable` and `JobControl`: several operands of one `wait`, `bg` or `kill`
(they are the same steps one after the other), option parsing and message
texts, the terminal hand-over of `fg` (`tcsetpgrp`), reuse of process
identifiers, `kill`'s exit status, and background pipelines that fail half-way
through: the children they started are in no list.

In `MainLoop`: the `.rushrc` file, the line editor, commands that never end.

In `Executor`: assignments, `case`, groups, background commands and pipelines;
expansion, and the exit that `set -u` requests in it; positional parameters and
local scopes of functions; trap handlers as trees, but for the EXIT trap: a
handler is only whether it exits and with what.

In `ScriptEngine` and `Parser`: single quotes (treated as double ones) and
escapes; assignments have one form. In `Words`: redirections and parameters
within command substitutions, whose output is a constant; arithmetic overflow.

In `Descriptors`: what is read and written, positions in files, permissions,
running out of descriptors; how much a pipe holds, and so the stage that blocks
on a full one; `exec`, which the shell does not have; background pipelines.

Components left out, with their reasons, are in `PROJECT.json`: variables and
their scopes, options, the directory stack, `umask` and `test` are sequential
stores or pure functions that single calls test well; completion, line editing
and display have no part in execution.

## Plan

What remains worth doing, in order:

1. Background pipelines that fail half-way through, with process groups: which
   children are in no list, against `JobControl`.
2. Variables: local scopes, export and unset against an abstract store, and the
   environment a child gets.
