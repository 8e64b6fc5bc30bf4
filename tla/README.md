# Specifications of arm-linux

TLA+ models of the programs in this repository, TLC configurations that check
them on small instances, and TLAPS proofs of the theorems that matter most.

## The system

The repository collects programs of three kinds, which share no running state.

| Component | Source | State | Operations |
|---|---|---|---|
| Boot code of the exception program | `src/arm920t/exception/start.S` (reset), `relocate.c`, `exception.lds`, `sdram/sdram.c` (`sdram_init`) | SDRAM and its controller, memory at address 0, `sp_svc`, CPSR, watchdog, clocks | reset path, image copy, `.bss` clearing, switch to usr mode |
| Exceptions and EINT8 | `start.S` (`do_und`, `do_swi`, `do_irq`), `main.c`, `interrupt.c` | CPSR, banked `lr`/`spsr`/stacks, position of the thread, the interrupt controller's registers | the thread's instructions and calls, the three handlers, `interrupt_init`, `interrupt_service` |
| UART0 console | `uart/uart.c` | holding register `UTXH0`, shift register, the terminal | `putchar`, `puts`, formatting |
| TCP server and client | `imx6ull/net/src/tcp_server.c`, `tcp_client.c` | one process per session, `sdbuf`, stdin's buffer, descriptors, TCP streams | accept, fork, scanf, send, close, waitpid; recv |
| Data relocation program | `relocate/relocate_01.c`, `data_relocate.S`, `init/init.S` | SDRAM, `.data` and `.bss` | `data_relocate`, counters |
| SDRAM test, LED, clock and watchdog programs | `sdram/`, `led/`, `clock/`, `watchdog/`, `delay/` | GPIO registers, blink counters | register writes, blink loop, delays |
| Kconfig parser | `kconfig/scripts/kconfig/zconf.tab.c`, `lex.zconf.c`, `menu.c` | open files, the menu tree, `current_menu`, `current_entry`, `last_entry_ptr` | a statement or option of each kind, `source`, ends of files and blocks, `menu_finalize` |
| Kconfig expressions | `expr.c` | dependency trees | rewriting passes, evaluation |
| Kconfig symbols | `symbol.c` | user value, cached value and flags of each symbol, `modules_val` | `sym_calc_value`, `sym_set_tristate_value`, choices, selects, ranges, `sym_check_deps` |
| Kconfig configurations and front ends | `confdata.c`, `mconf.c`, `conf.c` | `.config`, the change count, the menu shown, the questions still to ask | `conf_read`, `conf_write`, the key loop, the modes of `conf` |
| lxdialog | `lxdialog/*.c` | the open dialog: cursor, scroll, window, buttons | keys, resizes, return values |
| Build tools and Makefiles | `basic/fixdep.c`, `confdata.c`, `util.c`, `Makefile`, `Kbuild.include` | `auto.conf`, `autoconf.h`, symbol headers, `.cmd` files, objects | `conf -s`, compile, `fixdep` |
| Other tools, hello drivers, notes, logs, scripts | `basic/docproc.c`, `kxgettext.c`, `drivers/`, `doc/`, `log/`, `qemu/`, `config/`, `scripts/`, `tools/` | none | filters |

How they interact: the boot code runs first and hands over to the thread, in usr
mode and with interrupts masked (`UsrMode` of `Boot` is the initial state of
`Exceptions`); the thread and the handlers print through the UART, where
`interrupt_service` may meet `putchar` half way (`Uart`); the server's processes
share the terminal and the descriptors that fork copies, and meet the clients
only through TCP. In Kconfig the parser fills the symbol table and the menu tree,
`menu_finalize` moves its entries about and rewrites the dependencies once, and
`sym_check_deps` refuses what depends on itself. From then on `mconf` and `conf`
set values and show what is calculated on demand, which `conf_read` replaces and
`conf_write` saves; `mconf` shows it through lxdialog, whose dialogs return what
was pressed and where. `make` then runs `conf -s`, which touches a header for each
symbol that changed, and recompiles what `fixdep` has found to mention it.

What is hard here: a reset or watchdog bite between any two steps of the boot,
over memory an earlier run has left; code, vectors and stack in the same 4 KB of
a NAND boot; an interrupt between any two instructions, over registers the
handlers share with the thread; a check of a hardware register that is stale
when the store follows; processes that fork, carry buffers along and come back to
`accept`; TCP splitting and joining what was sent; clients that die; expressions rewritten
in place by passes that rely on each other's normal form; values cached until a
flag is cleared, calculated by two symbols that call each other; a save that
fails half way; a tree rearranged while it is walked; blocks that span files; a loop of questions that must end; windows
scrolled one line at a time over lists that change and terminals that are resized;
a build that is killed between touching headers and replacing `auto.conf`.
`PROJECT.json` lists every hazard at its line with the properties that cover it.

## Modules

| Module | What it is |
|---|---|
| `Loader` | abstract: main finds fresh memory each time the board comes up |
| `Boot` | the reset path, block by block; implements `Loader` |
| `Exceptions` | the usr thread, the handlers and the interrupt controller |
| `Console` | abstract: each writer's characters in order, one at a time, once |
| `Uart` | `putchar` and the transmitter; implements `Console` |
| `ExceptionProgramProofs` | proofs about `Boot`, `Exceptions` and `Uart` |
| `TcpServer` | server processes, terminal, TCP and clients |
| `TcpServerProofs` | proofs about `TcpServer` |
| `KconfigRules` | tristate logic and the rules of `expr.c` for one or two leaves |
| `KconfigRulesProofs` | proofs that the rules keep values |
| `KconfigExpr` | the passes over whole trees, in `menu_finalize`'s order |
| `KconfigExprProofs` | proofs that the passes keep values |
| `KconfigSymbols` | the symbol database: calculating and setting values |
| `KconfigNumbers` | int symbols: texts, ranges, defaults, as wide as an int |
| `ConfData` | the entries and their visibility; `conf_read`, `conf_write` |
| `Menuconfig` | `mconf`'s keys over `ConfData` |
| `Oldconfig` | `conf` in its modes over `ConfData` and `KconfigNumbers` |
| `FrontEndProofs` | proofs about `KconfigSymbols`, `ConfData`, `Menuconfig` and `Oldconfig` |
| `MenuTree` | the database of menu entries and what the parser calls to fill it |
| `MenuFinalize` | `menu_finalize` and what it calls |
| `SymCheck` | `sym_check_deps` over a finalized tree |
| `KconfigReader` | lexer and grammar over several files, filling a `MenuTree` |
| `KconfigReaderProofs` | proofs about `KconfigReader` |
| `KconfigParser` | `conf_parse` as a whole; composes the four models above |
| `Dialog` | what all dialogs have: items, keys, buttons, resizes, a drawn window |
| `Menubox`, `Checklist`, `Inputbox`, `Textbox`, `Yesno` | one dialog each |
| `Screens` | the functions of `mconf.c` that open them; composes all five |
| `ScreensProofs` | proofs about `Screens` and its dialogs |
| `Build` | from `.config` to the objects |
| `BuildProofs` | proofs about `Build` |
| `MCSample` | the Kconfig that `Menuconfig` and `Oldconfig` are run on |
| `MCBoot`, `MCExceptions`, `MCTcpServer`, `MCKconfigExpr`, `MCMenuconfig`, `MCOldconfig`, `MCParser`, `MCScreens`, `MCBuild` | values for TLC |

### Boot

One action per block of `start.S`: `WatchdogOff`, `ClockInit`, `Probe` (writes 0
to address 0, reads it back, picks the stack, restores the word), `SdramInit`,
`Copy2Sdram` and `CleanBss` (one word per step, so that a reset can cut in
anywhere), `EnterUsr`, `Uart0Init`, `Messages` (the calls of start.S:114-125), then `MainStore` for main's counters.
`low` is the memory at address 0: flash that ignores stores, or the SRAM of a
NAND boot, in which `Pushed` lets the frames of the reset path clobber the top.
`WatchdogBite` is possible as long as the timer runs and `ResetButton` at any
time; both are `ChipReset`, after which SDRAM holds what it held or decayed.
The assumption `MediaAssumption` says what the source takes for granted: image and
frames fit the 4 KB of a NAND boot. Lines read for detail but not modelled: the
asynchronous bus mode, the LOCKTIME register, the pin setup of the UART.

`clean_bss` compares with `<=`, so it ends on the word that holds `_end`, `EndWord`.

From `EnterUsr` on the stack is the one `sp_usr` points to, which no instruction sets:
`usrStack` is any of `UsrStacks`, another one after every reset. `uart0_init` and the
calls after it push frames there (the Makefile compiles without -O). Frames in flash,
or where nothing answers, do not keep what is pushed (`Held`), and frames over the
program destroy it; in all these cases the board may be `lost` before main. `Clear` says
that the stack happens to be RAM beside the program, and what is claimed from
`Uart0Init` on is claimed for that case: `VectorsIntact`, `ImplementsLoader`, and of
`BootCompletes` that nothing else stops the board. (clock/README.md:8-9 has the
reason: a program whose stack pointer is not initialised hangs.)

### Exceptions

`Thread` is the sequence of instructions and calls after the switch to usr mode;
`at` is the program counter as an index into it. The handlers are entered by
`Trap` and `Interrupt`, which bank `lr` and `spsr` as the ARM920T does, and take
steps `hpc`: save a frame, call C functions (which lose `r0` and `lr` and keep
`r4`), return with the caret that restores the CPSR. The general registers are
abstracted to `r0` and `r4`, the two kinds the calling convention knows. The
controller is `LowLevel`, `Request`, `Pend`; `KeyMove` is the key. `usrSp` and
`entryI` are the stack pointer and the I bit usr mode is entered with: the
program never sets the first, and keeps reset's TRUE for the second. So `do_irq` never
runs (`IrqNeverTaken`), though the author wondered why (interrupt.c:8). `FALSE` is
a start.S that clears the bit, with which TLC takes `do_irq` through all of its
interleavings; what `ContextKept` and `InOrder` say of it is about that program.

### Uart

`Poll` and `Store` are the two halves of `putchar`; `Interrupt` starts
`interrupt_service`'s message between any two of them. Each character is its
writer and number, and `lost` counts those overwritten in `UTXH0`. `Console`
allows only that: the thread's character replaces the last of the handler's.

### TcpServer

A process is a slot with a place in `main`: `Accept`, `Fork` or `ForkFails`
(`!fork()` takes -1 for the parent's return; any fork may fail), `Test` (the strcmp), `Scan` or
`ScanEof`, `Send` or `SendFails` (error exit or SIGPIPE), `Close`, `Reap`. A child
that ends its session goes on to `Close` and `Reap` and back to `Accept`, as the
code does. Lines carry one or two tokens; what scanf leaves of a line stays in the
process's `input`, which fork copies. A token crosses TCP as two halves, so that
`recv` may return a part of it or join it with its neighbours. Setting up the
listening socket (tcp_server.c:28-59) is the initial state: its errors end the
program.

### KconfigRules and KconfigExpr

A dependency is a record tree. The code rewrites trees through two pointers that may
point into the same tree, and all of its two-pointer recursions walk a chain (nested
nodes of one operator) operand by operand. Here a chain is taken apart into the sequence of
its operands (`Operands`), a pointer is a position in it, the recursion over both
pointers is a pair of loops (`Pairwise`, in the order in which the recursion visits the pairs), and
the chain is put together again in the shape it had (`Filled`). `Struck` is the loop of
`expr_eliminate_eq` and of `expr_extract_eq`, `Dups1By` and `Dups2By` those of
`expr_eliminate_dups1` and `expr_eliminate_dups2`. The latter goes on with the node itself after it has
visited the operands below the second pointer, so that its inner loop is over `Nodes`. `trans_count`
is `n` in the states of these loops. `Round` is a round of `expr_eliminate_dups`.

The recursions are recursive functions over `Exprs`, the trees that nest at most
`Depth` deep above their leaves and negated leaves, and the reducing passes are over `Flat`, the
transformed trees of at most `Depth` operands, none of them the literal `m`. That the dependencies
are such trees is `DepsAssumption`, which every finite set of dependencies without that literal meets for
some `Depth`; it is 8 for TLC. `Depth` also bounds the calls for chains within chains
(`EqBy`, `Dups1`, `Dups2`), of which a chain of `Depth` operands cannot need more, and `Depth + 2` the
rounds. A round that rewrites leaves fewer operands (`RoundShrinks`), so that they are enough for
every expression that can be reduced: the last round rewrites nothing (`ElimDupsEnds`, both
proved; `RoundsEnd` has TLC look at the dependencies of the run). TLC stops with an
error at a tree outside a function's domain; a run that finishes has met none. The actions are the
steps of `menu_finalize` for one entry: `TransformDep`, `JoinParent`, `Reduce`,
`Prompt`, then `Nest`, which decides whether the entry is shown below the config
in front of it; that config's dependency went through the same steps. `None` is the null
pointer. The constants `y`, `m`, `n` are the symbols of those names.

Two facts about `expr.c` delimit what the properties say. The rules for
complements make `(A||B) && !A && !B` into `n`, which it is not when `A` is `m`:
`ReduceKeepsValue`, `PromptKeepsVisibility` and `NestedFollows` are about valuations
without `m`, while `TransformKeepsValue` and the proved rules hold with it. And the
comment at `expr.c:489` says `(a!='m') && (a!='n') -> (a='m')` where the code
returns `a='y'`, which is right: `JoinAnd` follows the code.

### KconfigSymbols, ConfData and Menuconfig

The database is a value `[sym, modval]` and each function of `symbol.c` an operator
from a database to the database after it and what it returned, because `sym_calc_value` is called in the middle of
everything: by drawing a menu (`Visible`, `BuildBy`), by writing a file (`WriteEntry`),
by reading one (`Check`). An action of `Menuconfig` is one key: the handler, then
`build_conf` for the menu that is shown next, so the order of the calculations is
the code's. `Write` and `ConfRead` are `conf_write` and `conf_read`; `SaveFails` and
`AnswerYesFails` are a rename that fails after `SYMBOL_WRITE` has been cleared,
`LoadMissing` a name without a file after the change count was reset. A
configuration file is the function it defines from symbols to values.

`sym_calc_value` calls itself through whatever its symbol depends on, until it meets
one that is valid. It is a tower of functions, `CalcAt`: `CalcAt[n]` calculates where
at most `n` symbols are not valid, and a call within a call finds one more of them
valid, so that `CalcAt[Cardinality(Syms)]` is the function. `menu_is_visible` and `build_conf`
recurse down the menu tree, which is no higher than it has entries (`Height`).

The instance in `MCMenuconfig` is a Kconfig with `option modules`, tristates `A` and
`B` (`B` depends on `A` and selects `S`), a tristate choice `C` of `X` and `Y` with a
conditional default, and a menu holding `S`: it has a select, a default, a nested
entry, a choice value with a dependency of its own and values that change type
with `MODULES`.

What the properties except, because the code does it: after a rename fails,
`conf_write` writes the symbols it has already visited no more (`Retrievable`
excepts it); after a mistyped name in "load", exit no longer asks to save, and a
failed rename likewise (`NothingLost` excepts `failed`). First files name every
value of the choice: from one that does not, `conf_read` takes `DEF_USER` from the
choice but keeps what was calculated with it, and the choice changes at the next
key. `MODULES` has no default: with `default y` and no `.config` the first screen is
drawn before `modules_val` is calculated.

### KconfigNumbers and Oldconfig

A number is the text of an int symbol, or `NotANumber`; `AsInt` is what is left of
strtol's long in an int of `Width` bits, so that a text can be larger than the
range and still be found within it, and is written as it was entered. `NumText` is what is written, after
`sym_validate_range`; `NumLine` what a line of a file makes of one.

`conf()` and `check_conf()` call themselves and each other and ask in the middle.
`todo` holds the calls still to make, innermost first; each action is one call, or
one line that is read: `Conf` and `CheckConf` push further calls, `SkipSym` and
`SkipString` print what needs no answer, `AnswerSym`, `AnswerString`, `Refused`,
`NoPick`, `KeepPick`, `AnswerPick`, `RefusedPick` take one, `Abort` is `check_stdin`, `Several`
goes on to the values of a choice at `m`. `Start` is the switch of `main`, `Again`
and `Asked` its do-while, `WriteOut` and `WriteFails` `conf_write`. The options
`-s`, `-d`, `-n`, `-m`, `-y` and `-r` and the files `all*.config` are modelled with
what rand() may give; `KCONFIG_NOSILENTUPDATE` is `quiet`. After `MaxLines` lines
stdin ends, and only empty lines are read.

### MenuTree, KconfigReader, MenuFinalize, SymCheck and KconfigParser

`KconfigReader` is `conf_parse` until `zconfparse` returns, and `KconfigParser` adds
the passes after it, `Finalize` and `CheckDeps`; both conjoin `Later`, so that a
behaviour of the whole parser is one of `ReadSpec`. The halves are modules of their
own because `MenuFinalize` and `SymCheck` recurse over the tree, as the code does, and
the reading does not.

A line stands for its tokens up to `T_EOL`. `if`, `menu` and `choice` take effect in
the grammar when the token after their last option is seen, and `menuconfig`
changes the type of its prompt then; `option_list` keeps what waits, and `Begun`
completes it. `sources` is the stack of open files: a last line without a newline
(`Unended`) ends its file before its statement is reduced, so that `current_file`
is already the parent. `read` is the text so far; it records for each line the file it stands
in and the file that is open behind it (`after`), for the entry of a block has the
latter, but that of an `if` the file of the next statement (`BlockFile`), and
`zconf_endtoken` compares it. `menu_end_menu` and the rest of `menu.c` have their names in
`MenuTree`; `menu_finalize` is a recursive operator with one definition per part of
the function. A condition there is a conjunction, a set of operands: what the
passes of `expr.c` do to a whole tree is `KconfigExpr`'s subject. `rev_dep` is a
sequence of alternatives. `SymCheck` keeps the two flags, the error count, what a
call returned, and whether the message has followed a null pointer.

The whole conf program, compiled from these sources, was run on each of the Kconfigs
of the `parser` run: refusal, acceptance and crash agree with the model on
all but one, in which crash or message depends on the order of the operands of a
conjunction, which the model leaves open.

### Dialog, its dialogs, and Screens

`win` is the window as drawn: one `Cell` per row with the item and whether it is
lit. A dialog draws incrementally (`do_scroll`, `print_item`), so `win` is state, not
a view of the list. Heights are those of the terminal in lines: too low for any
dialog, for the checklist only, or for some. `KEY_RESIZE` may come before any key.
A dialog ends in `result`, which the frame on top of `Screens` acts on: `frames` is
the call stack of `mconf.c` with each function's locals; `s_scroll` is the local of
the `conf()` on top. What a key does to symbols is in `Menuconfig`; here a list of
items becomes another (`Listings`).

`ReturnsToPlace` says where a menu is found again: at the line and scroll position it was
left with, except after Load, Save and the line above them. These have no data
(mconf.c:539-545), so `active_menu` becomes null (mconf.c:559), `dialog_menu` looks for nothing
(menubox.c:247), and the main menu is back on its first line.

What the properties except while a terminal is resized (`resized`), because the
code does it: `dialog_menu` does not reset `first_item` (menubox.c:249-257) and
draws its buttons as if the first were chosen (menubox.c:276), `dialog_inputbox`
keeps its scroll (inputbox.c:100). `PageTrue` excepts texts whose last line has no newline, for `back_lines`
(textbox.c:278) then skips a line when it leaves the end, and a box without a row,
which the text box has on a terminal of 8 lines: it shows nothing there, and what it
says of beginning and end is about nothing.

What the proofs take for granted of a Kconfig is named: a menu is an item of its
parent once and has a list if its item is tagged `m` (`ListsAssumption`: `build_conf`
makes an item per entry, and the menu tree is one); a choice has values and a string
fits `MAX_LEN` (`ValuesAssumption`: `dialog_checklist` takes the highlighted item
without asking for one, and `dialog_inputbox` copies the string whole into a buffer of
that length); and a
text is a whole number of lines, shown in a window of the terminal's size or in a box of
five or six (`ScreensAssumption`: the texts of `show_textbox` in mconf.c).

### Build

A configuration is a function from symbols to values. `conf -s` takes the steps of
`conf_write_autoconf`: `WriteDep`, `ReadAuto` (what `auto.conf` says now), `Compare` one symbol
after the other and touch its header, `WriteTemporary`, `RenameHeader`, `RenameAuto`. The dates of files are reduced to what make asks:
`outdated` for `auto.conf`, `newer` for what is newer than an object. An object is made
in two steps, since its recipe is several commands: `Compile`, after which it is there, and
`Postprocess` (`fixdep`, `rm`, `mv`), after which its `.cmd` is; make may be at several
objects at a time (`making`). `Stop` ends
make at any step: a command that fails between the two leaves a `torn` object, newer
than its `.cmd`. `Interrupt` is a signal, upon which make deletes the objects being made.
A new `auto.conf` writes `.config` first when it has to; both are `config`. Of an
object the model keeps the header it was compiled with (`seen`) and its `.cmd` file.

A torn object is taken for finished when the command line has not changed, and what
its sources have come to mention since the old `.cmd` is unknown to make (`Unknown`).
`NoStale` and `Settles` except just those symbols; `UsersRebuilt` does not, and fails.

## Runs

| Run | Shows | Bounds |
|---|---|---|
| `boot` | vectors intact from both media; boot completes; implements `Loader`; all as far as `sp_usr` allows | three image words, one of `.data`, one of `.bss`, the word at `_end` and two above; SRAM of five words, two of them stack; five places of the usr stack: clear of the program and over it in SDRAM and at address 0, and no memory; two button presses, any number of watchdog bites |
| `exceptions` | both traps and any interleaving of `do_irq` leave the thread undisturbed; messages in order; with the I bit no interrupt is taken | three key moves (press, release, press), `sp_usr` in RAM or not, both I bits |
| `uart` | an interrupt costs at most the last character of its message; all else is shown in order | four characters, two messages of two |
| `tcp_server` | nothing leaks, clients are accepted and `exit` ends a session, with failing forks, end of file, uninitialised buffers and clients killed at any time | two clients, two processes, two tokens |
| `tcp_server_fork` | tokens in order and each sent once, although children carry read-ahead over fork | three clients, four processes: a former child with a token read ahead serves two clients |
| `kconfig_expr` | every pass of `menu_finalize` keeps what the dependency stands for; nesting is justified | all dependencies of one or two operands from seven, negated or not, below all menus of two operands from four and behind a config with one of two dependencies; a bool and a tristate |
| `menuconfig` | cached values are the right ones, accepted keys take effect, what is saved can be retrieved and nothing is lost silently | the instance above; three keys, loads or saves, with any number of exits and restarts; two file names; five first files, among them none and one with every symbol |
| `dialogs` | windows, fields and pages show what the dialog believes; a menu is found again where it was left, or on its first line after an item without data | a main menu of six items in windows of two rows and more, a submenu that may empty, a choice of three, strings up to four characters in a field of three, a text of eleven lines and a box of two; four terminal heights |
| `oldconfig` | `conf` ends with everything set that it asks for, old values kept, numbers that read back, and of a choice at `y` just the value it picks | eight modes, six first files among them contradictory ones and one with an invalid line, random values with and without modules and every random pick, five lines of input, numbers of four bits |
| `oldconfig_loop` | finding: a loop that asks nothing and changes nothing for ever | as above, `Y` depending on `A` rather than on `A=y` |
| `build` | no object left with stale values but in symbols its torn `.cmd` lacks; `auto.conf` marks completion; make settles | two symbols, two values, two sources shared by two objects that may be made at once, two edits, two failures or kills |
| `parser` | exactly what does not nest is refused; tree and conditions are those of the text; circles are found | four families of Kconfigs, 27,979 in all: blocks over three files, with and without a newline at the end; submenus; choices; circles |

The bounds are the smallest in which each case occurs twice or meets its limit: a
second reset finds memory of the first run, a second interrupt meets a message
half sent, the third process is a child of a former child. Pairs of operands reach
every rule of `expr.c` and every round of `expr_eliminate_dups`; three keys are
enough to set a value, change what it depends on and save or load, from first
files in which modules, selects and the choice are already set. Five lines answer
every question of one pass and one of the next. A list is longer than its window
by more than the three lines in which `dialog_menu` scrolls differently. An edit
before and one after a failed run of make, and a failure after each, give every
order of touched headers and renamed files. `CHECK_DEADLOCK FALSE` is set
where the system may stop: a lost stack frame (`boot`, `exceptions`), all text printed, nobody typing, the
parser or `mconf` at its end.

### What does not hold

`oldconfig_loop` is a finding: `conf.c:590` says `Update until a loop caused no more
changes`, but `conf_cnt` counts calls of `conf()`. With a tristate choice whose
values need a symbol at `m`, nothing is asked and the choice stays without a value
of the user, so `conf -o` prints "Restart config..." for ever; the compiled program does.

More properties are stated in the modules that the code does not have. Two
configurations beside the runs show their counterexamples; for the rest, put the
property into the component's .cfg in place of the others (`PendingServed` as a
PROPERTY, the others as INVARIANTs):

* `UsersRebuilt` (`Build`; `tlc -config MCBuildTorn.cfg MCBuild`): fixdep.c:30-33 says that
  the files that use a changed symbol are rebuilt. A `fixdep` or `mv` that fails after
  the compiler leaves the new object beside the old `.cmd` (Kbuild.include:204-209), in
  which a symbol is missing that the source has come to mention; when that symbol
  changes, make leaves the object alone.
* `OneOfChoice` with two choices (`Oldconfig`; `tlc -config MCOldconfigRandom.cfg MCOldconfig`):
  the comments at confdata.c:868 and :890 say that of a choice that is `y` one value only is
  set. `conf -r` picks for one choice after the other; a choice that depends on a value of
  a later one has calculated that value, and only the choice itself is calculated again
  (confdata.c:906), so that `.config` gets that value and the one picked both as `y`. The
  compiled program does so for two bool choices in some of its random runs.
* `PendingServed` (`Exceptions`): interrupt.c:13 enables the EINT8 interrupt, and
  interrupt.c:8 remarks that for some reason it cannot be triggered. The I bit of reset
  stays set (start.S:109), usr mode cannot clear it, and INTPND stays pending for ever.
* `UsrStackInRam` (`Exceptions`): the first call in usr mode pushes through an
  `sp_usr` that no instruction sets (start.S:110).
* `ExitEndsSession` (`TcpServer`): a child that ended its session goes back to
  `accept` with `sdbuf` still "exit", and the sessions it forks end at once, though
  tcp_server.c:77 says that 'exit' ends them.
* `ExitSeen` (`TcpServer`): strcmp compares what one recv returned (tcp_client.c:52);
  an exit in two parts or behind other text is not seen.
* `Retrievable` with `NeedOfY <- AnyA` (`MCMenuconfig`): of a tristate choice at `y`, a
  value that needs an `m` symbol stays `m` beside it (symbol.c:298); both are written,
  and read back as `m`.

The parser's model ends in "crashed" or "aborted" where the program dereferences
a null pointer: an `if` left open as the last statement of the main file (its
destructor, zconf.tab.c:1285-1315), and the message about a circle through a symbol
that has no property made by a file (symbol.c:859). `ReadRight` and `CyclesRejected`
count both as refusals. A sourced file whose last line is `endmenu` without a newline
is refused as "in different file".

## Fairness

`Boot`: the processor executes its next instruction (`WF(Code)`); resets and main's
stores are free. `Exceptions`: the processor executes, the controller's gates
propagate. `Uart`: the processor executes and the transmitter shifts. `TcpServer`:
each process and each client is scheduled when it can move (`WF` per process, what
a preemptive kernel gives); typing, connecting and killing are never forced. No strong fairness is assumed. `Build`: make is started again and again and gets on
with its steps (`WF` of each), which is a user who builds; edits and failures are
bounded, not forced. The other Kconfig modules state safety only: a user need not
press a key, and what `conf` repeats is bounded by `NoVainPass`.


## Proofs

All are for every value of the constants under the named assumptions.

* `ExceptionProgramProofs`, `Boot`: the inductive invariant relates the place in the boot to how far
  SDRAM is loaded (`dest`), which words of `low` the frames may clobber and which
  stack was chosen; `PushKeeps` adds what frames of usr mode leave alone. `Loaded` alone is not inductive: in the middle of the copy it
  says nothing, and the copy reads `low`, so `VectorsIntact` has to be carried
  along. Proved: `TypeOK`, `Loaded`, `VectorsIntact`, `StackInRam`, `UsrMode`,
  and that every behaviour is one of `Loader`.
* `ExceptionProgramProofs`, `Exceptions`: the invariant says, for each place in a handler, what the
  frame, `lr` and `spsr` hold (`InHandler`, `Saved`) and which message was last
  (`Told`). Proved: `TypeOK`, `ContextKept`, `IrqNeverTaken`, `InOrder`.
* `ExceptionProgramProofs`, `Uart`: the invariant bounds the characters the transmitter holds by the
  interrupts taken since the thread's last check. Proved: `TypeOK`,
  `LossBounded`, and that every behaviour is one of `Console`.
* `KconfigRulesProofs` and `KconfigExprProofs`: for every set of symbols and every valuation, `m` included,
  the operand `expr_join_or` or `expr_join_and` puts for two has their value
  (`JoinOrSound`, `JoinAndSound`), and the leaf cases of `expr_transform` keep values
  (`TransformTestSound`, `TransformNotSound`); `TristateLaws` gives the laws, De
  Morgan's among them, that pushing negations down rests on. Each is a case split
  over the rules, with `SymbolNames` (no symbol is named `y`, `m` or `n`) as the
  assumption. The hypothesis about `same` is what `expr_eq` means for leaves.
  `TransformSound` carries this to whole trees, for expressions of any depth: whatever the
  symbols hold, `expr_transform` keeps the value and makes no tree deeper. The induction is over
  the levels of `Tree` (`TreeLevels`, `LevelsExist`). `expr_transform` calls itself on what
  it has just built from its own result, `!(a||b)` becoming `!a && !b`, which is no part of the
  tree it was given; that such a function exists is itself a proof
  (`TransformExists`: what a negation is rewritten to is a chain of negations one level
  lower). `FoldExists` does the same once for all functions that only look at a tree's
  parts.

  The passes that reduce rest on three lemmas. `FilledValue`: a chain has its unit for
  value exactly when all its operands have, so that without `m` the operands decide the
  chain and a loop over them has an invariant. `FilledUpdate`: exchanging
  one operand changes the width of the chain by the difference, by which every
  intermediate tree stays within the model's domain. `PairInvariant`: what each step of
  a pair of loops keeps, the loops keep. `expr_eq` and `expr_eliminate_eq` call each other,
  and what they keep is one induction over the nesting of chains
  (`Kept`, `EqSound`): where the two trees have different values, striking out what they
  share keeps both values; so what ends in the same constant was equal. On it stand
  `expr_extract_eq` (`ExtractEqKept`), joining (`JoinSound`), and deciding a chain by a
  complement (`ComplementSound`), and from these `OnTheWay` is the invariant of the loops of
  `expr_eliminate_dups1` and `expr_eliminate_dups2`, whose calls for chains within
  chains are again inductions (`Dups1Sound`, `Dups2Sound`, `ElimDupsSound`).
  The do-while of `expr_eliminate_dups` has no bound and ends nonetheless (`RoundShrinks`,
  `ElimDupsEnds`): every rewrite leaves an operand `y` or `n`, later rewrites may move over it but
  never take away the last that is `Spent` (`SpentOnTheWay`, again an invariant of the two loops and
  an induction over chains within chains), and `expr_eliminate_yn` then makes the tree narrower
  (`FilledSpent`).
  `TransBoolSound`, `CompareSound` and `DependsOnSound` are folds.

  Of `menu_finalize` the invariant (`FinalizeInv`) says that from the joining on the dependency can be
  reduced and has the value of the two as they were written; checked by TLC on the
  `kconfig_expr` run. Proved from it, for any symbols and any dependencies that
  `DepsAssumption` admits: `TransformKeepsValue`, `ReduceKeepsValue`,
  `PromptKeepsVisibility` and `NestedFollows`.

* `BuildProofs`: `AutoConfMarks` and `NoStale` for any symbols, sources and objects, and
  any number of edits and failures. The invariant carries a value that has changed from
  `.config` to the object: a symbol whose header is no newer than an object has in
  `auto.conf` the value the object was compiled with, and once compared has it in
  `.config` too (`Untouched`); the prerequisites in the `.cmd` of an object that is not torn
  are complete while the sources are no newer (`Complete`); `Order` says how far `conf -s` has got. `NoStale`
  alone says nothing while `conf -s` runs, which is when a kill does harm.

* `TcpServerProofs`: for any number of processes, clients and tokens. `Holding` ties a
  process's descriptors to its place and to `fin`; `Sessions` says that one process
  serves a connection; `Quiet` says that a process which is not serving has seen its
  "exit" or has read nothing, which is why a child that comes back to `accept` with
  old input does no harm; `TtyOrder` and `LiveOrder` order what a process has sent, holds, has
  read ahead and will read. `InOrder` follows with end of file too. `OnceInv` adds that of the
  processes that hold copies of a token after a fork one alone will send it, and that
  the halves of tokens cross a connection in order. `NoDuplicate` has the
  hypothesis `~Eof`: at end of file scanf leaves `sdbuf` as it was and the last token
  is sent again and again, which the code does and the `tcp_server_fork` run leaves out.
* `ScreensProofs`: layer by layer. `Phase` says which function of `mconf.c` a dialog on
  the screen belongs to; with it `FieldInv` and `PageInv` are about one dialog each (the
  part of the string in the field; the place in the file, the lines drawn and the
  two marks of a text box). `ScreenInv` relates the stack of functions, the list that was
  made, the `s_scroll` and active item each `conf` keeps and the window that is drawn. Proved:
  `WindowTrue`, `FieldTrue`, `PageTrue` and the action property `ReturnsToPlace`, for lists, strings and
  texts of any length and any keys and sizes of the terminal.
* `KconfigReaderProofs`: `ReadRight` for any files with any lines. What the text
  says, by counting, and what the parser built, by a stack, are held together by a
  witness: `os`, the lines that opened the blocks still open, outermost first (`Opened`, a
  fact about the text alone, kept by `OpenedPush`, `OpenedPop` and `OpenedKeep`). `Hung` says that
  `blocks`, `current_menu`, the length of the tree and the place of each entry are those
  of `os`, except for what `option_list` still waits with; `Ready` is the same once
  the next token has come (`BegunIs`). `Files` says that what is open or scanned is what the text
  sourced. `ReadRight` says nothing while the files are read, so it is far
  from inductive; `Reading` is what holds then, and TLC has checked it on the `parser` run.
* `FrontEndProofs`: what `sym_calc_value` computes, and what `mconf` and `conf` do with
  it, for any symbols, dependencies, defaults, selects, choices, menus and files.

  Assumed of a Kconfig (`SymbolsAssumption`, `ChoiceAssumption`, `NoCircleAssumption`, `ModulesAssumption`,
  `EntriesAssumption`, `FilesAssumption`, `ConfigsAssumption`; TLC evaluates each on the instances): it has finitely many
  entries; a choice value belongs to one choice, which `menu_finalize` makes its prompt
  depend on; a choice's defaults are values of it; `sym_check_deps`
  has accepted it, which is to say that every set of nodes has one that uses none of
  them, a choice and its values being one node; what decides whether there are modules is bool; and
  `for_all_symbols` meets every symbol. `ModulesAssumption` is the one the code does not check or
  establish: where `MODULES` depends on a tristate, that tristate's value depends on `modules_val`
  in turn, and which is asked first decides.

  `Sound` is what every database is: no bool is `m`, a choice picks one of its own values.
  What a call does is first bounded (`Frames`: it touches no user's value and makes nothing
  invalid; `Grown`: what is valid keeps its value), by induction up the tower. `Done` says what it is for one symbol to be right
  given the symbols it depends on: visibility, selects, the user's value or the first
  default that holds, what a choice picks; `Good` that all of a set are. The induction
  for `CalcRight` goes up the tower again with the set `P` of symbols whose calculation is
  under way, none of which what is asked for may depend on (`Free`): this
  is where a choice asks its values for their visibility while they are about to ask the choice
  for its own.

  `Below` is the order in which nodes use each other. Two databases in which
  everything is right, over the same user's values, are equal (`FreshUnique`): first for the
  symbols that decide about modules (`Kernel`), whose values depend on nothing else,
  then node by node (`NextSame`). So the order in which screen and file ask for values
  does not matter, and what is kept is what would be calculated anew wherever the database is `Ready`
  (`KeptIsFresh`): right in all that is valid, with `modules_val` among it.

  From this follow properties of the runs. `OnePickedRight` and `BoundsRight` read `ChoiceOne` and
  `WithinDependencies` off a right database, and `MenuconfigUsable` is the invariant of the key loop
  by which every reachable one can be calculated. `SetTakesEffect` is `TakesEffect` where the
  database is `Ready`: the databases before and after
  agree on all nodes below that of the symbol that is set (`AgreeBelow`), so that its visibility and selects are
  what `sym_tristate_within_range` looked at. The exception it states is the code's:
  a choice set to `y` without a visible value is `n`. `Coherent` is proved for every step that
  changes a value (`ChangeHeals`), whatever was kept before, and from then on until a file
  is read or a value is set to what it is already (`CacheStaysRight`).
  `MenuconfigOneSet` is what no key may do besides what it is for.

  Of `conf`, `ConfUsable` says what calls are still to make, that the modes for new symbols are
  in `ask_silent` from the start, and that meanwhile what the file set stays set (`FromFile`);
  an answer is only taken for a symbol without a value (`SeenStaysUser`: showing it did not set
  it). `Kept` is its last state.

Only model-checked, and why:

* The liveness properties (`BootCompletes`, `AllShown`, `PendingAccepted`,
  `ExitEndsClient`, `Settles`) need fairness and are beyond the prover.
* `Coherent` and `TakesEffect` in every state. They do not hold for every Kconfig:
  `sym_set_tristate_value` of the value a symbol has clears nothing, though it sets `DEF_USER`
  of the choice and its visible values, and `conf_read` takes marks back without calculating
  again. The run shows that its instance is not affected but for the choice `Coherent` excepts; the theorems say
  where they hold in general.
* `Retrievable`, `NothingLost` and `NoVainPass` fail for some Kconfigs ("What does not hold");
  which dependencies must be excluded is known from counterexamples only. `NothingNew` rests on
  the loop that `NoVainPass` is about, and on reading back what was written.
* `OneOfChoice` fails with a second choice ("What does not hold"), so no theorem states it;
  the run shows it where there is one.
* `TreeSound`, `Inherited` and `CyclesRejected`: `MenuFinalize` and `SymCheck` recurse over the tree
  that they rearrange (`RECURSIVE`), which the prover cannot follow.

## Plan

Modelled and checked: everything in the table above. In the order of importance,
what is left:

1. Hex and string symbols in `KconfigNumbers`, several prompts per symbol.
2. fprintf that fails while `conf_write` writes.
3. `MenuFinalize` without `RECURSIVE`, as `KconfigExpr` and `KconfigSymbols` are, to prove `TreeSound`.

Not modelled, and why. `include/s3c2440.h` holds constants only; the hello drivers
print one line each; the LED, clock, watchdog, SDRAM test and relocation programs
write registers in a straight line and count in loops, alone on the machine: there
is no order of steps to get wrong but the one written. (What a reader of them should
know: `relocate_01.c:29` reads `bss_start` as a variable in SDRAM that is not set up
yet, `data_relocate.S:16` copies before it compares, `twinkle.c:80` does not set
`multi` again after the first round, and `uart.c:43` negates the smallest int.)
`docproc`, `kxgettext` and the keyword hash keep no state of their own; of bison's and
flex's output the tables are generated, and what they do is modelled by the
statements they recognise. The rest is documentation and installation scripts. In
Kconfig: the literal `m` as an operand in `KconfigExpr`, comparisons of strings and
numbers, symbols with several prompts, help texts, search results, and a disk that
fills up while `conf_write` writes, which the code does not notice.
