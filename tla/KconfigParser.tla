----------------------------- MODULE KconfigParser -----------------------------
(***************************************************************************)
(* conf_parse: what has been read is finalized and checked (zconf.tab.c,   *)
(* menu.c, symbol.c).                                                      *)
(***************************************************************************)
EXTENDS KconfigReader, MenuFinalize, SymCheck

CONSTANTS HashOrder,    \* the named symbols in the order of for_all_symbols
          MODULES

Finalize == LET named == \E i \in DOMAIN menus.prop : menus.prop[i].sym = ModulesSym
            IN  /\ Later
                /\ phase = "parsed" /\ phase' = "finalized"
                /\ menus' = menu_finalize(IF named THEN menus ELSE ModulesDefault(menus, MODULES, Nobody), Root)

Verdict(s) == IF s.crashed THEN "aborted" ELSE IF s.errors > 0 THEN "recursive" ELSE "accepted"
CheckDeps == /\ Later
             /\ phase = "finalized"
             /\ phase' = Verdict(Checked(menus, HashOrder \o AllChoices(menus)))
             /\ UNCHANGED menus

Next == ReadNext \/ Finalize \/ CheckDeps

Spec == Init /\ [][Next]_vars

\* The condition of the properties of line i: with what surrounds it, up to a choice.
ChoicesOf(i) == {j \in Within(read, i) : What(read, j) = "choice"}
Surrounding(i) ==
    IF ChoicesOf(i) = {} THEN UNION {Own(read, j) : j \in Within(read, i)}
    ELSE LET c == Max(ChoicesOf(i)) IN {<<EntryOf(read, c), "set">>} \union UNION {Own(read, j) : j \in {k \in Within(read, i) : k > c}}

(***************************************************************************)
(* Properties.                                                             *)
(***************************************************************************)
\* The entries below x, in the order of the menu.
RECURSIVE Walk(_)
Walk(x) == IF x = Null THEN <<>> ELSE <<x>> \o Walk(menus.entry[x].list) \o Walk(menus.entry[x].next)

\* However menu_finalize moves entries about, it loses none and keeps their order.
\* An entry ends below the block with a prompt that it stands in or below a config
\* that its prompt depends on, perhaps through one without a prompt that ends there;
\* and the values of a choice are the configs in it that do not end below another.
TreeSound == phase = "finalized" =>
    LET lines == {i \in DOMAIN read : What(read, i) \in Heads}
        Nearest(bs) == IF bs = {} THEN Root ELSE EntryOf(read, Max(bs))
        Block(i) == Nearest({j \in Within(read, i) : HasPrompt(menus, EntryOf(read, j))})
        Above(i) == menus.entry[EntryOf(read, i)].parent
        Sym(e) == menus.entry[e].sym
        Condition(e) == IF HasPrompt(menus, e) THEN PromptOf(menus, e).vis ELSE menus.entry[e].dep
        Silent(i) == {Sym(e) : e \in {d \in 1 .. EntryOf(read, i) - 1 : menus.entry[d].parent = Above(i) /\ ~HasPrompt(menus, d)}}
        Values(c) == {i \in lines : /\ What(read, i) \in {"config", "menuconfig"} /\ Above(i) = Block(i)
                                    /\ Nearest({j \in Within(read, i) : What(read, j) # "if"}) = c}
    IN  /\ Walk(Root) = [e \in DOMAIN menus.entry |-> e]
        /\ \A i \in lines : \/ Above(i) = Block(i)
                            \/ /\ Sym(Above(i)) \in Names
                               /\ InCond(Condition(EntryOf(read, i))) \intersect ({Sym(Above(i))} \union Silent(i)) # {}
        /\ \A i \in lines : What(read, i) = "choice" =>
              LET c == EntryOf(read, i) IN ToSet(menus.sym[c].values) = {Sym(EntryOf(read, j)) : j \in Values(c)}

\* Every property has, besides its own condition, those of its entry and of what
\* surrounds it, and no other; a value that is not tristate also that a tristate
\* choice is y.
Inherited == phase = "finalized" =>
    LET Makes == {"prompt", "default", "select", "menu", "comment", "choice", "modules"}
        PropAt(i) == menus.prop[1 + Cardinality({j \in 1 .. i : What(read, j) \in Makes})]
        At(i) == IF What(read, i) \in Options THEN Owner(read, i) ELSE i
        Given(i) == IF What(read, i) \in {"prompt", "default", "select"} THEN menu_check_dep(read[i].line.on) ELSE {}
        TypeOf(s) == menus.sym[s].type
        OnlyY(e) == {<<p.expr, "y">> : p \in {q \in ToSet(menus.prop) : /\ q.menu = e /\ q.type = "choice" /\ q.expr # Nobody
                                                                       /\ TypeOf(q.expr) = "tristate" /\ TypeOf(q.sym) # "tristate"}}
    IN  \A i \in DOMAIN read : What(read, i) \in Makes \ {"modules"} =>
            PropAt(i).vis = Given(i) \union Own(read, At(i)) \union Surrounding(At(i)) \union OnlyY(EntryOf(read, At(i)))

\* A Kconfig is refused after that if and only if a symbol depends on itself, through
\* conditions, defaults and selects, a choice and its values taken together.
CyclesRejected == phase \in {"accepted", "recursive", "aborted"} =>
    LET Node(s) == IF menus.sym[s].choiceval THEN ChoiceOf(menus, s) ELSE s
        Nodes == Names \union {ModulesSym} \union {s \in 1 .. Len(menus.entry) : menus.entry[s].sym = s}
        props == ToSet(menus.prop)
        Uses(p) == CASE p.type = "choice" -> {}
                     [] p.type = "select" -> {<<p.expr, t>> : t \in {p.sym} \union InCond(p.vis)}
                     [] p.type = "default" /\ ~IsChoice(p.sym) -> {<<p.sym, t>> : t \in {p.expr} \union InCond(p.vis)}
                     [] OTHER -> {<<p.sym, t>> : t \in InCond(p.vis)}
        Edges == {<<Node(u[1]), Node(u[2])>> : u \in {v \in UNION {Uses(p) : p \in {q \in props : q.sym # Nobody}} :
                                                        Node(v[1]) # v[2] \/ v[1] = v[2]}}
        Circles == {S \in SUBSET Nodes \ {{}} : \A a \in S : \E b \in S : <<a, b>> \in Edges}
    IN  (phase # "accepted") <=> (Circles # {})
===============================================================================
