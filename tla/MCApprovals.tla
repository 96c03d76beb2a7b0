----------------------------- MODULE MCApprovals -----------------------------
(* A connector with three tools, of which two are asked for, one connector   *)
(* that asks for data alone, and a custom widget.                            *)
EXTENDS ApprovalCard, TLC

CONSTANTS mail, feed, read, send, purge, chart

MCConns == <<mail, feed>>
MCMailOnly == <<mail>>
MCTools == <<read, send, purge>>
MCCustoms == <<chart>>
MCNoCustoms == <<>>
MCFirstAsk == [c \in Conns |-> IF c = mail THEN {read, send} ELSE {}]
=============================================================================
