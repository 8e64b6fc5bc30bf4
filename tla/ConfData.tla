------------------------------- MODULE ConfData -------------------------------
(***************************************************************************)
(* conf_read and conf_write of confdata.c, and the tree of menu entries    *)
(* whose order the file follows.                                           *)
(*                                                                         *)
(* A configuration file is what it says of the symbols: a partial function *)
(* from symbols to values in menu order.  Quoting, comments and lines      *)
(* about symbols the Kconfig does not have are left out.                   *)
(***************************************************************************)
EXTENDS KconfigSymbols

CONSTANTS Root, Menus,   \* rootmenu, and the menus without a symbol, Root among them
          MenuDep,       \* their prompts' visible.expr
          Kids,          \* the entries below each entry, in order
          HashOrder,     \* the symbols in the order of for_all_symbols
          NoFile

VARIABLES db,       \* the symbol database of the program that runs
          changed   \* sym_change_count # 0

Entries == Menus \union Syms

ASSUME EntriesAssumption ==
    /\ IsFiniteSet(Menus) /\ Root \in Menus /\ Menus \intersect Syms = {}
    /\ MenuDep \in [Menus -> Exprs]
    /\ Kids \in [Entries -> Seq(Entries)] /\ \A c \in Syms : IsChoice(c) => Range(Kids[c]) \subseteq Range(Members[c])
    /\ HashOrder \in Seq(Syms) /\ Range(HashOrder) = Syms

\* What F makes of the elements of xs, one after the other, where S is what the states are.
Each(xs, S, F(_, _), s) == Repeated(Len(xs), [i \in 1..Len(xs) |-> [u \in S |-> F(u, xs[i])]], s)

(***************************************************************************)
(* The entries.                                                            *)
(***************************************************************************)
\* menu_is_visible: also an entry that is set and has a visible entry below.
Looked == [d : Dbs, val : BOOLEAN]
VisibleBy(visible, d, e) ==
    LET IsSeen(r) == [d |-> r.d, val |-> r.val # no]
        Look(r, k) == IF r.val THEN r ELSE visible[r.d][k]
        Entry(d1) == Each(IF d1.sym[e].tri = no THEN <<>> ELSE Kids[e], Looked, Look,
                          [d |-> d1, val |-> d1.sym[e].vis # no])
    IN  IF e \in Menus THEN IsSeen(Eval(d, MenuDep[e]))
        ELSE IF Prompt[e] = NoPrompt THEN [d |-> d, val |-> FALSE]
        ELSE Entry(Calc(d, e))

\* The tree is no higher than it has entries.
Height == Cardinality(Entries)
VisibleAt[n \in Nat] == [d \in Dbs |-> [e \in Entries |->
    IF n = 0 THEN [d |-> d, val |-> FALSE] ELSE VisibleBy(VisibleAt[n - 1], d, e)]]
Visible(d, e) == VisibleAt[Height][d][e]
LookAtAll(d, es) == Each(es, Dbs, LAMBDA d1, k : Visible(d1, k).d, d)

(***************************************************************************)
(* Reading and writing configurations.                                     *)
(***************************************************************************)
OrderAt[n \in Nat] == [e \in Entries |->
    IF n = 0 THEN <<>>
    ELSE Each(Kids[e], Seq(Entries), LAMBDA o, k : o \o <<k>> \o OrderAt[n - 1][k], <<>>)]
MenuOrder == OrderAt[Height][Root]

Contents == UNION {[X -> Tristate] : X \in SUBSET Syms}

\* A line of the file.  Of a bool m is warned of, and sets nothing.  Returns [d, warned].
LineOf(d, s, v) == [d EXCEPT !.sym[s].user = TRUE, !.sym[s].utri = v]
LineOfChoice(d, c, s, v) ==
    [d EXCEPT !.sym[c].user = @ /\ ~(v = mod /\ d.sym[c].utri = yes),
              !.sym[c].usel = IF v = yes THEN s ELSE @,
              !.sym[c].utri = OrT(@, v)]
ReadLine(r, s, v) ==
    LET old == r.d.sym[ChoiceOf[s]].utri
    IN  IF s \in Bools /\ v = mod THEN [r EXCEPT !.warned = TRUE]
        ELSE IF ~IsChoiceVal(s) THEN [r EXCEPT !.d = LineOf(@, s, v)]
        ELSE [d |-> LineOfChoice(LineOf(r.d, s, v), ChoiceOf[s], s, v),
              warned |-> r.warned \/ (v = mod /\ old = yes) \/ (v = yes /\ old # no)]

\* conf_read_simple of a file that exists.
Unread(d) == [d EXCEPT !.sym = [s \in Syms |->
                [@[s] EXCEPT !.valid = FALSE, !.user = IsChoice(s), !.utri = no, !.usel = Nobody]]]
ReadLines(d, file) ==
    Each(MenuOrder, [d : Dbs, warned : BOOLEAN],
         LAMBDA r, s : IF s \in DOMAIN file /\ ~IsChoice(s) THEN ReadLine(r, s, file[s]) ELSE r,
         [d |-> Unread(d), warned |-> FALSE])
WithModules(r)      == [r EXCEPT !.d = Calc(@, ModulesSym)]
ReadSimple(d, file) == WithModules(ReadLines(d, file))

\* A choice has a set value only if its visible values have.
Settled(d, c) == \A x \in Range(Members[c]) : d.sym[x].vis # no => d.sym[x].user

\* The value of s agrees with the one that was read.
Agrees(d, s) == LET r == d.sym[s] IN
                \/ IsChoice(s) \/ s = ModulesSym
                \/ r.user /\ r.write /\ r.utri = r.tri
                \/ ~r.user /\ ~r.write

\* One symbol after conf_read_simple; u is [d, unsaved].
Check(u, s) ==
    LET Checked(d) ==
            [d |-> [d EXCEPT !.sym[s].user = @ /\ (IsChoice(s) => Settled(d, s))],
             unsaved |-> u.unsaved \/ ~Agrees(d, s)]
    IN  Checked(Calc(u.d, s))
CheckAll(d) == Each(HashOrder, [d : Dbs, unsaved : BOOLEAN], Check, [d |-> d, unsaved |-> FALSE])

\* What is invisible and was saved appears as new later.
Forgotten(d, unsaved) ==
    [d EXCEPT !.sym = [s \in Syms |->
        [d.sym[s] EXCEPT !.user = @ /\ (unsaved \/ d.sym[s].vis # no \/ IsChoiceVal(s))]]]

\* conf_read.  Returns [d, changed].
Remembered(u, warned) == [d |-> Forgotten(u.d, u.unsaved), changed |-> warned \/ u.unsaved]
AfterRead(r)      == Remembered(CheckAll(r.d), r.warned)
ConfRead(d, file) == AfterRead(ReadSimple(d, file))

\* Slip: what is n is not written.
WriteEntrySet(w, e) ==
    LET Line(d) == IF d.sym[e].tri # no THEN [d |-> d, out |-> [w.out EXCEPT ![e] = d.sym[e].tri]]
                   ELSE [w EXCEPT !.d = d]
    IN  IF e \in Menus THEN [w EXCEPT !.d = Visible(w.d, e).d]
        ELSE IF IsChoice(e) THEN w ELSE Line(Calc(w.d, e))

\* One entry of conf_write's walk over the menus; w is [d, out].
Unwritten(d, e) == [d EXCEPT !.sym[e].write = FALSE]
LineWritten(d, e) == IF e \in Tris THEN Calc(Unwritten(d, e), ModulesSym) ELSE Unwritten(d, e)
WriteLine(w, e, d) ==
    IF d.sym[e].write THEN [d |-> LineWritten(d, e), out |-> [w.out EXCEPT ![e] = d.sym[e].tri]]
    ELSE [w EXCEPT !.d = d]
WriteEntry(w, e) ==
    IF e \in Menus THEN [w EXCEPT !.d = Visible(w.d, e).d]
    ELSE IF IsChoice(e) THEN w ELSE WriteLine(w, e, Calc(w.d, e))

\* conf_write up to fclose: the database and what the new file says.
Lines == [Syms -> Tristate \union {Nobody}]
Write(d, dirty) ==
    LET Closed(w) == [d |-> w.d, out |-> [s \in {x \in Syms : w.out[x] # Nobody} |-> w.out[s]]]
    IN  Closed(Each(MenuOrder, [d : Dbs, out : Lines], WriteEntry,
                    [d |-> IF dirty THEN d ELSE ClearAllValid(d), out |-> [s \in Syms |-> Nobody]]))

(***************************************************************************)
(* What the properties compare.                                            *)
(***************************************************************************)
\* The values there are; and all symbols calculated in a given order, from what is kept and anew.
TrisOf(d) == [x \in Syms \union ConstSyms |-> IF x \in ConstSyms THEN ConstTri[x] ELSE d.sym[x].tri]
AllCalculated(d, order) == Each(order, Dbs, Calc, d)
Fresh(d, order) == AllCalculated(ClearAllValid(d), order)
Values(d) == LET f == AllCalculated(d, HashOrder)
             IN  [s \in {x \in Syms : ~IsChoice(x)} |-> f.sym[s].tri]
=============================================================================
