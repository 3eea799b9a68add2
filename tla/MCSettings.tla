----------------------------- MODULE MCSettings -----------------------------
(***************************************************************************)
(* Settings over a registry with one provider, one package registry, the   *)
(* network settings, a bounded number, and the guest's variables.          *)
(***************************************************************************)
EXTENDS Settings

P(name) == <<"ai", "p", name>>
N(name) == <<"network", name>>
Npm == <<"registry", "npm", "allow">>
Ram == <<"vm", "ram">>

Bool(b) == [t |-> "bool", v |-> b]
Text(x) == [t |-> "text", v |-> x]
List(x) == [t |-> "list", v |-> x]
File(path, content) == [t |-> "file", v |-> [path |-> path, content |-> content]]

Plain == [type |-> "text", default |-> Text(""), domains |-> << >>,
          choices |-> {}, min |-> None, max |-> None, env |-> {}]
Group(toggle) == [leaf |-> FALSE, enabledBy |-> toggle, def |-> Plain]
Leaf(def) == [leaf |-> TRUE, enabledBy |-> None, def |-> def]

MCNode ==
       <<"ai">> :> Group(None)
    @@ <<"ai", "p">> :> Group(P("allow"))
    @@ P("allow") :> Leaf([Plain EXCEPT !.type = "bool", !.default = Bool(FALSE), !.env = {"P_ALLOWED"}])
    @@ P("domains") :> Leaf([Plain EXCEPT !.default = List(<< <<"p">>, <<"*", "p">> >>)])
    @@ P("api_key") :> Leaf([Plain EXCEPT !.type = "apikey", !.env = {"P_API_KEY"}])
    @@ P("file") :> Leaf([Plain EXCEPT !.type = "file", !.default = File("/a.json", "{}"), !.env = {"P_FILE"}])
    @@ <<"registry">> :> Group(None)
    @@ Npm :> Leaf([Plain EXCEPT !.type = "bool", !.default = Bool(TRUE),
                        !.domains = << <<"n">>, <<"*", "n">> >>])
    @@ <<"network">> :> Group(None)
    @@ N("default_action") :> Leaf([Plain EXCEPT !.default = Text("deny"), !.choices = {"allow", "deny"}])
    @@ N("allow_all_domains") :> Leaf([Plain EXCEPT !.type = "bool", !.default = Bool(FALSE)])
    @@ N("custom_allow") :> Leaf([Plain EXCEPT !.default = List(<< <<"p">>, <<"*", "p">>, <<"y">> >>)])
    @@ N("custom_block") :> Leaf([Plain EXCEPT !.default = List(<< >>)])
    @@ <<"vm">> :> Group(None)
    @@ Ram :> Leaf([Plain EXCEPT !.type = "number", !.default = [t |-> "number", v |-> 2],
                        !.min = 1, !.max = 3])

MCNodes == DOMAIN MCNode
MCOrder == <<P("allow"), P("domains"), P("api_key"), P("file"), Npm, N("default_action"),
             N("allow_all_domains"), N("custom_allow"), N("custom_block"), Ram>>
Env(name) == <<"guest", "env", name>>
MCDynamic == {Env("P_FILE"), Env("LD_PRELOAD")}
MCDomains == {<<"p">>, <<"x", "p">>, <<"n">>, <<"x", "n">>, <<"x">>, <<"y">>, <<"z">>, << >>}

Offer(id, value) == [id |-> id, value |-> value]
MCOffers == {
    Offer(P("allow"), Bool(TRUE)),
    Offer(P("domains"), List(<< >>))}
MCCorpFiles == {
    << >>,
    (P("allow") :> Bool(FALSE)) @@ (N("allow_all_domains") :> Bool(TRUE)),
    (P("allow") :> Bool(FALSE)) @@ (P("file") :> File("a/../b", "{}"))
        @@ (P("api_key") :> Text("nul")) @@ (N("default_action") :> Text("allow"))
        @@ (N("custom_block") :> List(<< <<"x">> >>))
        @@ (Ram :> [t |-> "number", v |-> -1])}

Symmetry == Permutations(Venvs) \cup Permutations(Cmds)
=============================================================================
