------------------------------- MODULE MCParser -------------------------------
EXTENDS KconfigParser, TLC

CONSTANTS A, B, D,      \* symbols
          main, f, g    \* files

\* Lines, and a condition of one operand.
On(s)        == {<<s, "set">>}
Not(s)       == {<<s, "not">>}
M            == {OnlyM}
Blk          == [what |-> "blank"]
Cfg(s)       == [what |-> "config", name |-> s]
Mcfg(s)      == [what |-> "menuconfig", name |-> s]
Mnu          == [what |-> "menu"]
Cho          == [what |-> "choice"]
Cmt          == [what |-> "comment"]
If0(c)       == [what |-> "if", on |-> c]
Src(file)    == [what |-> "source", file |-> file]
EndOf(block) == [what |-> "end", of |-> block]
Typ(t)       == [what |-> "type", type |-> t]
Prm(c)       == [what |-> "prompt", on |-> c]
Def(s, c)    == [what |-> "default", name |-> s, on |-> c]
Sel(s, c)    == [what |-> "select", name |-> s, on |-> c]
Dep(c)       == [what |-> "depends", on |-> c]
Opt          == [what |-> "optional"]
Mod          == [what |-> "modules"]

\* Blocks over two files, well closed and not
Blocks ==
    main :> << {Mnu, Cho, If0(On(A))},
               {Cfg(A), Cmt, Src(g)},
               {Src(f), Cho, EndOf("menu")},
               {Dep(On(B)), EndOf("menu"), EndOf("choice"), EndOf("if")},
               {Blk, If0(On(B)), EndOf("menu"), EndOf("choice")},
               {Blk, EndOf("if"), EndOf("menu")} >>
 @@ f :> << {Mnu, Cfg(B), If0(Not(A))},
            {Dep(On(A)), Cfg(D), EndOf("menu")},
            {Blk, Prm({}), EndOf("menu"), EndOf("if"), If0(On(A)), Src(f)} >>
 @@ g :> << {Cfg(D), Cmt, Mnu, If0(On(B))}, {Dep(On(B)), Opt, EndOf("menu"), EndOf("if")} >>

\* What becomes a submenu of what
Submenus ==
    main :> << {Cfg(A), Mcfg(A)}, {Prm({}), Prm(On(D))},
               {If0(On(A)), Cmt, Mnu}, {Dep(On(A)), Dep(On(B)), Blk},
               {Cfg(B)}, {Prm({}), Blk}, {Dep(On(A)), Dep(Not(A) \union On(D)), Blk},
               {If0(On(B)), EndOf("if"), EndOf("menu"), Blk}, {Cfg(D), Cfg(A)}, {Prm(M), Dep(On(A)), Blk},
               {EndOf("if"), EndOf("menu"), Blk}, {EndOf("if"), Blk} >>

\* A choice, its values and what else stands in it
ChoiceTexts ==
    main :> << {Cho}, {Prm({}), Prm(On(D))}, {Typ("tristate"), Typ("bool"), Opt, Blk}, {Dep(On(D)), Blk},
               {Cfg(A)}, {Typ("bool"), Typ("tristate")}, {Prm({})},
               {If0(On(A)), If0(On(D)), Cmt, Blk}, {Cfg(B)}, {Typ("bool"), Typ("tristate"), Dep(On(A))}, {Prm({}), Prm(Not(D))},
               {EndOf("if"), Blk}, {EndOf("choice")},
               {Cfg(A), Cfg(D), Blk}, {Prm({}), Blk} >>

\* What depends on what
Circular ==
    main :> << {Cfg(A), Cho}, {Prm({}), Prm(On(B))}, {Dep(On(D)), Def(D, {}), Sel(D, {}), Blk},
               {Cfg(B)}, {Prm({}), Prm(M)}, {Dep(On(A)), Dep(On(D)), Def(D, Not(A)), Sel(D, On(A)), Blk},
               {EndOf("choice"), Blk},
               {Cfg(D), Cfg(MODULES)}, {Prm({}), Prm(On(A)), Blk}, {Def(B, {}), Sel(B, {}), Dep(M), Mod, Blk} >>

AllScripts == {Blocks, Submenus, ChoiceTexts, Circular}
InHashOrder == <<MODULES, A, B, D>>
===============================================================================
