----------------------------- MODULE MCHttpProxy -----------------------------
(***************************************************************************)
(* Instances of HttpProxy for TLC: two connections to one host, with and   *)
(* without a prompt, and an editor of the manifest.                        *)
(***************************************************************************)
EXTENDS HttpProxy, TLC

CONSTANTS c1, c2, h1, h2, cli, editor, p1, p2, p3, p4

MCKinds == {"http"}
MCSubjects == {"api.x"}
MCMethods == {"GET", "CONNECT"}
MCPaths == {"/"}
MCCovers == "*.x" :> {"api.x"}

Get == [kind |-> "http", subject |-> "api.x", method |-> "GET", path |-> "/"]
Tunnel == [Get EXCEPT !.method = "CONNECT"]
MCAsked == {Get, Tunnel}
MCOneAsked == {Get}
MCRules == {[Get EXCEPT !.subject = "*.x", !.method = "", !.path = "*"]}

OneHandler == (c1 :> h1) @@ (c2 :> h1)
OwnHandlers == (c1 :> h1) @@ (c2 :> h2)
PromptingProcesses == (h1 :> p1) @@ (cli :> p2) @@ (editor :> p3)
ForkedProcesses == (h1 :> p1) @@ (h2 :> p4) @@ (cli :> p2) @@ (editor :> p3)
=============================================================================
