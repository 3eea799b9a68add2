------------------------------ MODULE MCChannels ------------------------------
(***************************************************************************)
(* The boot handshake and the MCP gateway, the two protocols the guest     *)
(* speaks with the host over connections of its own.  They share no        *)
(* variable, so a behaviour runs one of them, picked by part.              *)
(* Handshake: caps of two variables, two files and three units of content, *)
(* frames of two units.  MCP: one server, one connection that sends        *)
(* anything once, one that calls a server tool and fetches a page of three *)
(* characters, the middle one of two bytes, in up to three parts.          *)
(***************************************************************************)
EXTENDS BootHandshake, Mcp, TLC

CONSTANTS a1, a2

\* Configurations up to and over the caps, without a setup script, and one with.
WithinCaps ==
    {[env |-> 0, files |-> << >>, setup |-> FALSE],
     [env |-> 3, files |-> <<1, 1, 1>>, setup |-> FALSE],
     [env |-> 1, files |-> <<2, 2, 1>>, setup |-> FALSE],
     [env |-> 0, files |-> << >>, setup |-> TRUE]}

\* Files up to the caps, and a setup script besides.
SetupOverCaps == {[env |-> 3, files |-> <<1, 2, 1>>, setup |-> TRUE],
                  [env |-> 0, files |-> <<1, 1>>, setup |-> TRUE]}

\* A file within the cap on bytes that no frame can hold.
BigFile == {[env |-> 0, files |-> <<3>>, setup |-> FALSE]}

AllConfigs == WithinCaps \cup SetupOverCaps \cup BigFile

Git == <<"git">>
LogAll == <<"git", Sep, "log", Sep, "all">>
Line(method, name) == [method |-> method, name |-> name, wide |-> FALSE]
Fetch == Line("tools/call", <<"fetch_http">>)
CallGit == Line("tools/call", LogAll)

MCServers == {Git}
MCPage == <<1, 2, 1>>
MCMaxLines == (a1 :> 1) @@ (a2 :> 3)
MCLines ==
    (a1 :> {Line("bad", << >>), Line("initialize", << >>), Line("notifications/initialized", << >>),
            Line("unknown", << >>), Line("tools/list", << >>), Line("tools/call", << >>), CallGit,
            [Fetch EXCEPT !.wide = TRUE],
            Line("tools/call", <<"grep_http">>), Line("tools/call", <<"http_headers">>), Line("resources/read", <<"git", Sep>>)})
    @@ (a2 :> {Fetch, CallGit})

\* Nothing blocked; a blocked server with an allowed tool; an allowed server
\* with a blocked tool, which leaves no other server.
MCPolicies ==
    {[blocked |-> {}, allowed |-> {}, decisions |-> << >>, default |-> "allow"],
     [blocked |-> {Git}, allowed |-> {}, decisions |-> (LogAll :> "warn"), default |-> "allow"],
     [blocked |-> {}, allowed |-> {Git}, decisions |-> (LogAll :> "block"), default |-> "allow"]}

VARIABLE part
channelVars == <<part, vars, mcpVars>>

ChannelsInit ==
    \/ /\ part = "boot" /\ InitWith(TRUE)
       /\ McpInit /\ mcpPolicy = CHOOSE p \in Policies : TRUE
    \/ /\ part = "mcp" /\ InitWith(FALSE) /\ config = CHOOSE c \in Configs : TRUE
       /\ McpInit

ChannelsNext ==
    \/ part = "boot" /\ Next /\ UNCHANGED <<part, mcpVars>>
    \/ part = "mcp" /\ McpNext /\ UNCHANGED <<part, vars>>

\* A guest whose agent does not hang.
ChannelsSpec == ChannelsInit /\ [][ChannelsNext]_channelVars /\ HostFairness /\ WF_vars(GuestStep) /\ McpFairness

\* Nothing waits for ever: the handshake is completed, connections that came
\* before its end are served after it, and a built-in tool is answered while a
\* server keeps the lock of the manager, unless machine or guest stop.
WaitsEnd == BootCompletes /\ WatchersServed /\ BuiltinsServed
==============================================================================
