--------------------------- MODULE MCAlertPipeline ---------------------------
(* Two alerts, an image of the topic and a confirmed one; one failing call    *)
(* and one crash can fall anywhere.                                           *)
EXTENDS AlertPipeline

P(kind, snap) == [kind |-> kind, snap |-> snap]
MCInputs == [alert |-> {P("urgent", TRUE), P("unknown", FALSE)},
             media |-> {P("image", TRUE)}]
MCMaxLog == [alert |-> 2, media |-> 1]
=============================================================================
