---------------------------- MODULE MCFrontEnds ----------------------------
(***************************************************************************)
(* FrontEnds for TLC: one workspace, in the file or to be created, and a   *)
(* request for every route and every rejection.                            *)
(***************************************************************************)
EXTENDS FrontEnds

MCIds == {"a"}

Request(method, path, body) ==
  [method |-> method, path |-> path, body |-> body, auth |-> "ok"]

OnWorkspace(i) ==
  {Request("GET",    <<"api", "workspaces", i>>, "none"),
   Request("PUT",    <<"api", "workspaces", i>>, "named"),
   Request("DELETE", <<"api", "workspaces", i>>, "none"),
   Request("POST",   <<"api", "workspaces", i, "launch">>, "none"),
   Request("POST",   <<"api", "workspaces", i, "stop">>, "none"),
   Request("GET",    <<"api", "workspaces", i, "status">>, "none"),
   Request("GET",    <<"api", "workspaces", i, "cdp", "json">>, "none")}

MCRequests ==
  {Request("GET",  <<"api", "status">>, "none"),
   Request("GET",  <<"api", "workspaces">>, "none"),
   Request("POST", <<"api", "workspaces">>, "named"),
   Request("POST", <<"api", "workspaces">>, "none"),
   Request("GET",  <<"api", "workspaces", "export">>, "none"),
   Request("POST", <<"api", "workspaces", "import">>, "list"),
   Request("POST", <<"api", "workspaces", "import">>, "none"),
   Request("GET",  <<"index.html">>, "none"),
   [Request("GET", <<"api", "status">>, "none") EXCEPT !.auth = "bad"]}
  \cup OnWorkspace("a")
=============================================================================
