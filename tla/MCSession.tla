----------------------------- MODULE MCSession -----------------------------
(* Instances of Session for TLC. *)
EXTENDS Session, TLC

(* "exec" is routed to another server than the bound one, "edit" to a      *)
(* local-only server, "ping" nowhere.                                      *)
MCResolve ==
  [t \in Tool |-> CASE t = "exec" -> "git"
                    [] t = "edit" -> "local"
                    [] OTHER -> NoServer]

Msg(kind, call, tool) == [kind |-> kind, call |-> call, tool |-> tool]

(* One server: everything competes for one cache entry. *)
CallsOnly == {Msg("request", TRUE, "ping")}

(* Two servers: a call routed by the router beside the bound server, which *)
(* gets requests that are not calls, and notifications.                    *)
TwoServerMessages ==
  {Msg("request", FALSE, NoTool), Msg("request", TRUE, "exec"),
   Msg("request", TRUE, "edit"), Msg("invalid", FALSE, NoTool),
   Msg("notification", FALSE, NoTool)}

ConnSymmetry == Permutations(Conn)
=============================================================================
