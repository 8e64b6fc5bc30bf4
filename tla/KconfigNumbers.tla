---------------------------- MODULE KconfigNumbers ----------------------------
(***************************************************************************)
(* int symbols: what symbol.c makes of the text of one.  A text is the     *)
(* number it spells, or NotANumber; hex symbols differ only in how they    *)
(* spell it.  strtol's long is kept in an int of Width bits.  What a       *)
(* number depends on is calculated anew at each use, where the code caches *)
(* it until the next sym_clear_all_valid.                                  *)
(***************************************************************************)
EXTENDS KconfigSymbols

CONSTANTS Numbers,      \* the int symbols
          NumPrompt,    \* visible.expr of each one's prompt
          NumDefaults,  \* its default properties: [text, cond]
          Ranges,       \* its range properties: [lo, hi, cond]
          NotANumber,   \* also the empty text of a symbol without a value
          Width         \* bits of an int

NumRec == [user |-> FALSE, text |-> NotANumber]

\* int val = strtol(str, NULL, base)
AsInt(t) == LET half == 2 ^ (Width - 1)
            IN  IF t = NotANumber THEN 0 ELSE ((t + half) % (2 * half)) - half

Holds(d, e)      == Eval(d, e).val # no
NumVisible(d, n) == Holds(d, NumPrompt[n])

\* sym_get_range_prop, sym_get_default_prop: the properties whose condition holds;
\* the first of them is meant.
RangeProps(d, n)   == SelectSeq(Ranges[n], LAMBDA p : Holds(d, p.cond))
DefaultProps(d, n) == SelectSeq(NumDefaults[n], LAMBDA p : Holds(d, p.cond))

\* sym_string_within_range
NumAccepted(d, n, t) ==
    /\ t # NotANumber
    /\ \A ps \in {RangeProps(d, n)} : ps # <<>> => AsInt(t) \in Head(ps).lo .. Head(ps).hi

\* sym_validate_range
Validated(t, ps) ==
    IF ps = <<>> \/ (AsInt(t) \in Head(ps).lo .. Head(ps).hi) THEN t
    ELSE IF AsInt(t) < Head(ps).lo THEN Head(ps).lo ELSE Head(ps).hi

\* sym_calc_value: the user's text where it is visible, or a default's.
ByUserNum(d, num, n) == NumVisible(d, n) /\ num[n].user
TextOr(defaults)   == IF defaults = <<>> THEN NotANumber ELSE Head(defaults).text
NumText(d, num, n) == Validated(IF ByUserNum(d, num, n) THEN num[n].text ELSE TextOr(DefaultProps(d, n)),
                                RangeProps(d, n))

\* SYMBOL_WRITE after sym_calc_value
NumWritten(d, n) == NumVisible(d, n) \/ DefaultProps(d, n) # <<>>

\* sym_set_string_value of an accepted text; the text that is there already
\* invalidates nothing.
SetNum(num, n, t) == [num EXCEPT ![n] = [user |-> TRUE, text |-> t]]
Renewed(num, n, t) == num[n].text # t

(***************************************************************************)
(* conf_read of the numbers.                                               *)
(***************************************************************************)
\* conf_set_sym_val: a text that is not a number is warned of and ignored.
NumLine(lines, n) == IF n \in DOMAIN lines /\ lines[n] # NotANumber
                     THEN [user |-> TRUE, text |-> lines[n]] ELSE NumRec
NumsWarned(lines) == \E n \in DOMAIN lines : lines[n] = NotANumber

\* The calculated text agrees with the one that was read.
NumAgrees(d, num, n) == \/ num[n].user /\ NumWritten(d, n) /\ NumText(d, num, n) = num[n].text
                        \/ ~num[n].user /\ ~NumWritten(d, n)

\* Forgotten as the symbols are, and also when out of range.
NumOut(d, num, n) == num[n].user /\ ~NumAccepted(d, n, num[n].text)
NumForgotten(d, num, unsaved) ==
    [n \in Numbers |->
        [num[n] EXCEPT !.user = @ /\ (NumVisible(d, n) \/ unsaved) /\ ~NumOut(d, num, n)]]
===============================================================================
