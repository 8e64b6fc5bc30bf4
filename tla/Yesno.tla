-------------------------------- MODULE Yesno --------------------------------
(***************************************************************************)
(* dialog_yesno of lxdialog/yesno.c, which takes 10 lines in mconf.c.      *)
(***************************************************************************)
EXTENDS Dialog

YesnoOpen == /\ open = "none"
             /\ IF height < 10 THEN result' = "small" /\ UNCHANGED open
                ELSE open' = "yesno" /\ result' = "none"
             /\ UNCHANGED <<height, button, drawn, resized>> /\ UNCHANGED listVars

YesnoReturn(r) == /\ open = "yesno"
                  /\ open' = "none" /\ result' = r /\ Ended
                  /\ UNCHANGED height /\ UNCHANGED listVars

YesnoButton == /\ open = "yesno" /\ Buttons(1)
               /\ UNCHANGED <<open, height, resized, result>> /\ UNCHANGED listVars

YesnoEnter == YesnoReturn(<<"yes", "no">>[button + 1])
YesnoKey   == \E r \in {"yes", "no", "esc"} : YesnoReturn(r)

YesnoResize == /\ open = "yesno"
               /\ \E h \in Heights \ {height} :
                    IF h < 10 THEN TooLow(h) ELSE Resized(h) /\ UNCHANGED open
               /\ UNCHANGED listVars

YesnoNext == YesnoButton \/ YesnoEnter \/ YesnoKey \/ YesnoResize
=============================================================================
