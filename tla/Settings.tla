------------------------------- MODULE Settings -------------------------------
(***************************************************************************)
(* The settings: three layers of files over a registry of defaults, what   *)
(* is built from them (policies, guest configuration, lint), and the       *)
(* commands that change a file and put the new policies into the machine   *)
(* that has the focus, while the main thread boots and stops machines.     *)
(*                                                                         *)
(* A value carries its type, as in TOML, since the files are edited by     *)
(* hand too: [t |-> "bool" | "number" | "text" | "list" | "file", v].      *)
(* A text is a class of texts; a list is a text of domains separated by    *)
(* commas.                                                                 *)
(***************************************************************************)
EXTENDS Integers, FiniteSets, TLC, NetPolicy

CONSTANTS
    Nodes,      \* defaults.toml: paths of its tables
    Node,       \* path -> [leaf, enabledBy, def]
    Order,      \* the registry's settings in the order of the file
    Dynamic,    \* ids guest.env.* that a file may hold
    Venvs,
    Cmds,       \* commands in flight
    Offers,     \* [id, value]: what a command may set
    CorpFiles,  \* files the administrator may have installed
    Domains,    \* domains that a guest asks for
    None,
    MaxUpdates  \* bound: commands that change a file

VARIABLES
    file,       \* user.toml, corp.toml and each venv's settings.toml
    focus,      \* focused_venv_id
    vm,         \* the running machines' policies
    boot,       \* the boot on the main thread: its venv and the policy it has built
    cmd,        \* commands: where they are and what they hold
    updates,    \* commands begun
    raced,      \* something overlapped a command, or its reload missed the machines its file is for
    mixed       \* a file was written between the two policies of a reload or of a boot

vars == <<file, focus, vm, boot, cmd, updates, raced, mixed>>

------------------------------------------------------------------------------
(* The registry: collect_settings.                                         *)

Ancestors(path) == {SubSeq(path, 1, n) : n \in 1..(Len(path) - 1)}
Deepest(S) == CHOOSE p \in S : \A q \in S : Len(q) <= Len(p)

Leaves == {p \in Nodes : Node[p].leaf}

\* enabled_by comes from the nearest group that has one, except to the toggle.
EnabledBy == [path \in Leaves |->
    LET groups == {g \in Ancestors(path) \cap Nodes : Node[g].enabledBy # None}
        toggle == IF groups = {} THEN None ELSE Node[Deepest(groups)].enabledBy
    IN IF toggle = path THEN None ELSE toggle]

Def(id) == IF id \in Leaves THEN Node[id].def
           ELSE [type |-> "text", default |-> [t |-> "text", v |-> ""], domains |-> << >>,
                 choices |-> {}, min |-> None, max |-> None, env |-> {}]

------------------------------------------------------------------------------
(* Merge: resolve_settings_with_venv.                                      *)

\* The elements of a sequence that are not in a set.
Without(seq, S) == FlattenSeq([i \in DOMAIN seq |-> IF seq[i] \in S THEN << >> ELSE <<seq[i]>>])

Stored(f, id) == id \in DOMAIN f

ResolveValue(user, venv, corp, id) ==
    CASE Stored(corp, id) -> [value |-> corp[id], source |-> "corp"]
      [] ~Stored(corp, id) /\ Stored(venv, id) -> [value |-> venv[id], source |-> "venv"]
      [] ~Stored(corp, id) /\ ~Stored(venv, id) /\ Stored(user, id) ->
            [value |-> user[id], source |-> "user"]
      [] OTHER -> [value |-> Def(id).default, source |-> "default"]

AsBool(x) == x.t = "bool" /\ x.v
AsList(x) == IF x.t = "list" THEN Without(x.v, {<< >>}) ELSE << >>   \* parse_domain_list
AsText(x) == IF x.t = "text" THEN x.v ELSE ""

DynamicKeys(user, venv, corp) == (DOMAIN user \cup DOMAIN venv \cup DOMAIN corp) \cap Dynamic

\* compute_enabled: a child of a toggle that is off, or no bool, is disabled.
Resolved(user, venv, corp, id) ==
    LET r == ResolveValue(user, venv, corp, id)
        parent == IF id \in Leaves THEN EnabledBy[id] ELSE None
    IN [value |-> r.value, source |-> r.source, locked |-> Stored(corp, id),
        enabled |-> parent = None \/ AsBool(ResolveValue(user, venv, corp, parent).value)]

Resolve(user, venv, corp) ==
    [id \in Range(Order) \cup DynamicKeys(user, venv, corp) |-> Resolved(user, venv, corp, id)]

------------------------------------------------------------------------------
(* Policies.                                                               *)

\* "x.domains" is switched by "x.allow".
Providers == {id \in Range(Order) : Last(id) = "domains" /\ Def(id).type = "text"}
Toggle(id) == Append(Front(id), "allow")
Registries == {id \in Range(Order) : Def(id).type = "bool" /\ Def(id).domains # << >>}

LockedOff(R, id) ==
    Toggle(id) \in DOMAIN R /\ R[Toggle(id)].locked /\ ~AsBool(R[Toggle(id)].value)
OffProviders(R) == {id \in Providers : LockedOff(R, id)}
On(R, id) == Toggle(id) \in DOMAIN R /\ AsBool(R[Toggle(id)].value)

\* A block list the user can shrink.
EffectiveOnly(R, id) == AsList(R[id].value)

\* The user cannot shrink the block list below the defaults.
DefaultAndEffective(R, id) ==
    LET defaults == AsList(Def(id).default)
    IN defaults \o Without(AsList(R[id].value), Range(defaults))

CorpBlocked(R) ==
    UNION {Range(DefaultAndEffective(R, id)) : id \in OffProviders(R)}

\* What a default list, a list of a file and the domains of a registry hold.
Pattern == Seq(STRING)
WellTyped(x) == (x.t = "list" => x.v \in Seq(Pattern)) /\ (x.t = "number" => x.v \in Int)

\* A domain that the pattern matches.
Sample(p) == IF Wild(p) THEN <<"x">> \o Tail(p) ELSE p

\* The registry has the toggles of its providers and the settings of the network;
\* its ids are none that a file may add; no two settings are for one variable; no
\* domain of a registry is one of a provider; a list is one of patterns; a number has
\* limits, which no negative one is within.  A command sets what resolve_settings reads.
ASSUME RegistryAssumption ==
    /\ {"user", "corp"} \cap Venvs = {} /\ None \notin Venvs
    /\ Order \in Seq(Leaves) /\ Dynamic \cap Leaves = {}
    /\ \A id \in Providers : Toggle(id) \in Range(Order)
    /\ \A name \in {"default_action", "allow_all_domains", "custom_allow", "custom_block"} :
          <<"network", name>> \in Range(Order)
    /\ \A id \in Range(Order) : WellTyped(Def(id).default) /\ Def(id).domains \in Seq(Pattern)
    /\ \A id \in Range(Order) : Def(id).type = "number" =>
          {Def(id).min, Def(id).max} \subseteq Nat \ {None} /\ Def(id).min <= Def(id).max
    /\ \A id, other \in Range(Order) : id # other => Def(id).env \cap Def(other).env = {}
    /\ \A id, other \in Dynamic : Last(id) = Last(other) => id = other
    /\ \A id \in Providers, r \in Registries : \A p \in Range(AsList(Def(id).default)), q \in Range(Def(r).domains) :
          ~Matches(q, Sample(p))

ASSUME FilesAssumption ==
    /\ \A c \in CorpFiles : \A id \in DOMAIN c : WellTyped(c[id])
    /\ \A x \in Offers : WellTyped(x.value) /\ x.id \in Range(Order) \cup Dynamic
    /\ MaxUpdates \in Nat

Custom(R, name) == AsList(R[<<"network", name>>].value)
DefaultAllow(R) == AsText(R[<<"network", "default_action">>].value) = "allow"
AllowAll(R) == AsBool(R[<<"network", "allow_all_domains">>].value)

Each(seq, op(_)) == [i \in DOMAIN seq |-> op(seq[i])]
InOrder(S, op(_)) == FlattenSeq(Each(Order, LAMBDA id : IF id \in S THEN op(id) ELSE << >>))

\* load_merged_network_policy_for_venv: registries, what the administrator
\* locked off, the other providers, the custom lists.
NetworkPolicy(R) ==
    LET registry(id) == Each(Def(id).domains, LAMBDA p : Rule(p, AsBool(R[id].value)))
        lockedOff(id) == Each(DefaultAndEffective(R, id), LAMBDA p : Rule(p, FALSE))
        provider(id) == Each(AsList(R[id].value), LAMBDA p :
                            Rule(p, On(R, id) /\ ~CorpBlockedMatches(p, CorpBlocked(R))))
        blocked == CorpBlocked(R) \cup Range(Custom(R, "custom_block"))
    IN [rules |-> InOrder(Registries, registry)
                  \o InOrder(OffProviders(R), lockedOff)
                  \o InOrder(Providers \ OffProviders(R), provider)
                  \o Each(Custom(R, "custom_allow"),
                          LAMBDA p : Rule(p, ~CorpBlockedMatches(p, blocked)))
                  \o Each(Custom(R, "custom_block"), LAMBDA p : Rule(p, FALSE)),
        default |-> DefaultAllow(R)]

\* settings_to_domain_policy: what is wanted and what of it is refused, ...
Effective(R, S) == UNION {Range(AsList(R[id].value)) : id \in S}
Metadata(S) == UNION {Range(Def(id).domains) : id \in S}
Wanted(R) == Effective(R, {id \in Providers \ OffProviders(R) : On(R, id)})
Refused(R) ==
    {p \in Wanted(R) : CorpBlockedMatches(p, CorpBlocked(R))}
    \cup {p \in Range(Custom(R, "custom_allow")) :
            CorpBlockedMatches(p, CorpBlocked(R) \cup Range(Custom(R, "custom_block")))}

\* A block list without the lists of the user.
CorpBlockList(R, refused) == CorpBlocked(R) \cup refused

BlockList(R, refused) ==
    Metadata({id \in Registries : ~AsBool(R[id].value)}) \cup CorpBlocked(R) \cup refused
    \cup Range(Custom(R, "custom_block"))
    \cup Effective(R, {id \in Providers \ OffProviders(R) : ~On(R, id)})

\* ... unless every domain is allowed.
Everything == [allow |-> {}, block |-> {}, default |-> TRUE]
DomainPolicy(R) ==
    LET refused == Refused(R)
        granted == (Wanted(R) \cup Range(Custom(R, "custom_allow"))) \ refused
    IN IF AllowAll(R) THEN Everything
       ELSE [allow |-> Metadata({id \in Registries : AsBool(R[id].value)}) \cup granted,
             block |-> BlockList(R, refused), default |-> DefaultAllow(R)]

------------------------------------------------------------------------------
(* Guest configuration; lint, of which the errors.                         *)

ValidText(x) == x \notin {"nul", "too long"}        \* validate_env_value
ValidPath(p) == p \notin {"", "nul", "a/../b"}      \* validate_file_path

\* validate_env_key: empty, with "=", or one that changes how programs are loaded.
ValidKey(k) == k \notin {"", "a=b", "LD_PRELOAD"}

EnvText(x) == CASE x.t = "text" -> x.v [] x.t = "file" -> x.v.content [] OTHER -> ""

\* The variables that a setting is for, its toggle's CLAWCAGE_*_ALLOWED too; a dynamic
\* one is named in the id.
Variables(id) == IF id \in Dynamic THEN {Last(id)} ELSE Def(id).env
GuestText(id, x) ==
    CASE id \in Dynamic -> AsText(x)
      [] id \notin Dynamic /\ Def(id).type = "bool" -> IF AsBool(x) THEN "1" ELSE "0"
      [] OTHER -> EnvText(x)

\* The settings that give the guest a variable.
Givers(R, k) ==
    {id \in DOMAIN R : /\ k \in Variables(id) /\ ValidKey(k)
                       /\ GuestText(id, R[id].value) # "" /\ ValidText(GuestText(id, R[id].value))}

\* settings_to_guest_config: the guest's variables, whether or not their provider is on.
\* The dynamic ones come last.
GuestEnv(R) ==
    [k \in {k \in UNION {Variables(id) : id \in DOMAIN R} : Givers(R, k) # {}} |->
        LET dynamic == Givers(R, k) \cap Dynamic
            giver == CHOOSE id \in Givers(R, k) : dynamic # {} => id \in dynamic
        IN GuestText(giver, R[giver].value)]

GuestFiles(R) ==
    {id \in DOMAIN R : R[id].value.t = "file" /\ R[id].value.v.content # ""
                       /\ ValidPath(R[id].value.v.path)}

\* settings_to_vm_settings: a number is cast to u32, where a negative one is huge.
VmSetting(R, id, default) ==
    LET x == R[id].value
    IN CASE x.t = "number" /\ x.v >= 0 -> x.v
         [] x.t = "number" /\ x.v < 0 -> 2147483647
         [] OTHER -> default

\* A lint that forgets the lower limit.
LintHigh(id, x) ==
    {e \in {"high"} : Def(id).type = "number" /\ x.t = "number" /\ Def(id).max # None /\ x.v > Def(id).max}

LintRange(id, x) ==
    {e \in {"low", "high"} :
        /\ Def(id).type = "number" /\ x.t = "number"
        /\ \/ e = "low" /\ Def(id).min # None /\ x.v < Def(id).min
           \/ e = "high" /\ Def(id).max # None /\ x.v > Def(id).max}

\* What config_lint reports of a setting.
LintErrors(R, id) ==
    LET x == R[id].value
    IN LintRange(id, x)
       \cup {e \in {"nul", "choice", "path", "json"} :
               \/ e = "nul" /\ AsText(x) = "nul"
               \/ e = "choice" /\ Def(id).choices # {} /\ x.t = "text" /\ x.v \notin Def(id).choices
               \/ e = "path" /\ x.t = "file" /\ x.v.path \in {"", "a/../b", "a.json"}
               \/ e = "json" /\ x.t = "file" /\ x.v.path \in {"/a.json", "a.json"}
                    /\ x.v.content = "not json"}

------------------------------------------------------------------------------
(* The commands.                                                           *)

Off == [on |-> FALSE, net |-> [rules |-> << >>, default |-> FALSE],
        dom |-> [allow |-> {}, block |-> {}, default |-> FALSE]]
Idle == [pc |-> "idle", target |-> None, held |-> << >>, net |-> Off.net, dom |-> Off.dom,
         reload |-> FALSE]
NoBoot == [v |-> None, net |-> Off.net]

Init ==
    /\ file \in {[f \in {"user", "corp"} \cup Venvs |-> IF f = "corp" THEN c ELSE << >>] :
                    c \in CorpFiles}
    /\ focus = None
    /\ vm = [v \in Venvs |-> Off]
    /\ boot = NoBoot
    /\ cmd = [c \in Cmds |-> Idle]
    /\ updates = 0
    /\ raced = FALSE
    /\ mixed = FALSE

\* What the settings of venv v, or those without a venv, resolve to.
Merged(v) == Resolve(file["user"], IF v = None THEN << >> ELSE file[v], file["corp"])

\* resolve_session_id: the focused venv, or else the only one that runs; one that
\* is booting is counted, and has no machine yet.
Running == {v \in Venvs : vm[v].on}
Counted == Running \cup ({boot.v} \ {None})
Active == IF focus # None THEN {focus} \cap Running
          ELSE IF Cardinality(Counted) = 1 THEN Running ELSE {}

Busy == \E c \in Cmds : cmd[c].pc # "idle"
Booting == boot.v # None

\* A command or the boot has built one of its two policies.
Halfway == Booting \/ \E c \in Cmds : cmd[c].pc = "dom"

\* validate_setting_value.
Validated(x) ==
    x.t = "file" => ValidPath(x.v.path)
                    /\ ~(x.v.path \in {"/a.json", "a.json"} /\ x.v.content = "not json")

\* The machine a reload goes to is the one the changed file is for.
Aimed(target) ==
    \/ {target} = Active
    \/ target = None /\ Running = Active /\ \A v \in Active : file[v] = << >>

\* A command reads its file and changes the copy.
Begin(c, target, changed, reload) ==
    /\ cmd[c].pc = "idle" /\ updates < MaxUpdates
    /\ cmd' = [cmd EXCEPT ![c] = [Idle EXCEPT !.pc = "write", !.target = target, !.held = changed,
                                              !.reload = reload]]
    /\ updates' = updates + 1
    /\ raced' = (raced \/ Busy \/ Booting \/ (reload /\ ~Aimed(target)))
    /\ UNCHANGED <<file, focus, vm, boot, mixed>>

FileOf(target) == IF target = None THEN file["user"] ELSE file[target]

With(f, id, x) == [i \in DOMAIN f \cup {id} |-> IF i = id THEN x ELSE f[i]]
WithoutId(f, id) == [i \in DOMAIN f \ {id} |-> f[i]]

UpdateSetting(c, target, choice) ==
    /\ Validated(choice.value)
    /\ Begin(c, target, With(FileOf(target), choice.id, choice.value), TRUE)

ResetVenvSetting(c, v, id) == Begin(c, v, WithoutId(file[v], id), TRUE)

SetGuestEnv(c, id) ==
    Begin(c, None, With(file["user"], id, [t |-> "text", v |-> "x"]), FALSE)
RemoveGuestEnv(c, id) == Begin(c, None, WithoutId(file["user"], id), FALSE)

Name(target) == IF target = None THEN "user" ELSE target

\* write_settings_file: fs::write makes the file empty, then writes it.
Truncate(c) ==
    /\ cmd[c].pc = "write"
    /\ file' = [file EXCEPT ![Name(cmd[c].target)] = << >>]
    /\ cmd' = [cmd EXCEPT ![c] = [@ EXCEPT !.pc = "fill"]]
    /\ mixed' = (mixed \/ Halfway)
    /\ UNCHANGED <<focus, vm, boot, updates, raced>>

Fill(c) ==
    /\ cmd[c].pc = "fill"
    /\ file' = [file EXCEPT ![Name(cmd[c].target)] = cmd[c].held]
    /\ cmd' = IF cmd[c].reload THEN [cmd EXCEPT ![c] = [@ EXCEPT !.pc = "net", !.held = << >>]]
              ELSE [cmd EXCEPT ![c] = Idle]
    /\ mixed' = (mixed \/ Halfway)
    /\ UNCHANGED <<focus, vm, boot, updates, raced>>

\* Hot reload: both policies are built from the files as they are now.
ReloadNet(c) ==
    /\ cmd[c].pc = "net"
    /\ cmd' = [cmd EXCEPT ![c] = [@ EXCEPT !.pc = "dom", !.net = NetworkPolicy(Merged(cmd[c].target))]]
    /\ UNCHANGED <<file, focus, vm, boot, updates, raced, mixed>>

ReloadDomain(c) ==
    /\ cmd[c].pc = "dom"
    /\ cmd' = [cmd EXCEPT ![c] = [@ EXCEPT !.pc = "swap", !.dom = DomainPolicy(Merged(cmd[c].target))]]
    /\ UNCHANGED <<file, focus, vm, boot, updates, raced, mixed>>

\* A reload that forgets the policy of the MCP gateway.
SwapNet(c) ==
    /\ cmd[c].pc = "swap"
    /\ vm' = [v \in Venvs |-> IF v \in Active THEN [vm[v] EXCEPT !.net = cmd[c].net] ELSE vm[v]]
    /\ cmd' = [cmd EXCEPT ![c] = Idle]
    /\ UNCHANGED <<file, focus, boot, updates, raced, mixed>>

\* The policies are put into the machine that is active now.
Swap(c) ==
    /\ cmd[c].pc = "swap"
    /\ vm' = [v \in Venvs |-> IF v \in Active
                              THEN [vm[v] EXCEPT !.net = cmd[c].net, !.dom = cmd[c].dom]
                              ELSE vm[v]]
    /\ cmd' = [cmd EXCEPT ![c] = Idle]
    /\ UNCHANGED <<file, focus, boot, updates, raced, mixed>>

\* focus_venv.
Focus(v) ==
    /\ focus' = v
    /\ raced' = (raced \/ Busy)
    /\ UNCHANGED <<file, vm, boot, cmd, updates, mixed>>

\* boot_venv gives the focus; gui_boot_vm builds the proxy's policy, ...
BootNet(v) ==
    /\ ~Booting /\ ~vm[v].on
    /\ focus' = v
    /\ boot' = [v |-> v, net |-> NetworkPolicy(Merged(v))]
    /\ raced' = (raced \/ Busy)
    /\ UNCHANGED <<file, vm, cmd, updates, mixed>>

\* ... then the gateway's, and the machine can be found.
BootDone ==
    /\ Booting
    /\ vm' = [vm EXCEPT ![boot.v] = [on |-> TRUE, net |-> boot.net, dom |-> DomainPolicy(Merged(boot.v))]]
    /\ boot' = NoBoot
    /\ UNCHANGED <<file, focus, cmd, updates, raced, mixed>>

\* stop_vm, on the main thread too.
Stop(v) ==
    /\ ~Booting /\ vm[v].on
    /\ vm' = [vm EXCEPT ![v] = Off]
    /\ raced' = (raced \/ Busy)
    /\ UNCHANGED <<file, focus, boot, cmd, updates, mixed>>

\* The application dies.
Crash ==
    /\ Busy \/ Booting
    /\ vm' = [v \in Venvs |-> Off]
    /\ boot' = NoBoot
    /\ cmd' = [c \in Cmds |-> Idle]
    /\ focus' = None
    /\ raced' = FALSE /\ mixed' = FALSE
    /\ UNCHANGED <<file, updates>>

Step(c) ==
    \/ \E target \in Venvs \cup {None}, choice \in Offers : UpdateSetting(c, target, choice)
    \/ \E v \in Venvs, offer \in Offers : ResetVenvSetting(c, v, offer.id)
    \/ \E id \in Dynamic : SetGuestEnv(c, id) \/ RemoveGuestEnv(c, id)
    \/ Truncate(c) \/ Fill(c) \/ ReloadNet(c) \/ ReloadDomain(c) \/ Swap(c)

Next ==
    \/ \E c \in Cmds : Step(c)
    \/ \E v \in Venvs : BootNet(v) \/ Stop(v)
    \/ BootDone
    \/ \E v \in Venvs \cup {None} : Focus(v)
    \/ Crash

Spec == Init /\ [][Next]_vars

------------------------------------------------------------------------------
(* Properties.                                                             *)

Policies == [rules : Seq([pat : Seq(STRING), read : BOOLEAN, write : BOOLEAN]), default : BOOLEAN]

\* The files, the focus, the machines and the commands keep their types: a file
\* holds settings of the registry or dynamic ones, and a machine that is off has
\* no policy.
TypeOK ==
    /\ \A f \in {"user"} \cup Venvs : DOMAIN file[f] \subseteq Range(Order) \cup Dynamic
    /\ focus \in Venvs \cup {None}
    /\ \A v \in Venvs : vm[v].net \in Policies /\ (~vm[v].on => vm[v] = Off)
    /\ \A c \in Cmds : /\ cmd[c].pc \in {"idle", "write", "fill", "net", "dom", "swap"}
                       /\ cmd[c].target \in Venvs \cup {None}
                       /\ cmd[c].net \in Policies
    /\ boot.v \in Venvs \cup {None} /\ boot.net \in Policies
    /\ updates \in 0..MaxUpdates /\ raced \in BOOLEAN /\ mixed \in BOOLEAN

\* A domain in the default list of a provider that corp.toml switched off stays
\* refused to every running machine, for every method: no order of updates of
\* the user's and the venvs' files, half-written files, focus changes and
\* reloads lifts the administrator's block from the proxy's policy, nor from the
\* MCP gateway's unless allow_all_domains replaced that one.
CorpBlockHolds ==
    \A v \in Running, id \in Providers :
        (/\ Toggle(id) \in DOMAIN file["corp"] /\ ~AsBool(file["corp"][Toggle(id)]))
        => \A p \in Range(AsList(Def(id).default)) :
            /\ IsFullyBlocked(vm[v].net, Sample(p))
            /\ EvaluateDomain(vm[v].dom, Sample(p)) => vm[v].dom.allow = {}

\* With no command and no boot in flight, and none that overlapped another or was
\* sent for a venv other than the active one, every running machine has the
\* policies that the files now give its venv.
CurrentPolicy ==
    ~Busy /\ ~Booting /\ ~raced =>
        \A v \in Running : /\ vm[v].net = NetworkPolicy(Merged(v))
                           /\ vm[v].dom = DomainPolicy(Merged(v))

\* The two engines of a machine are built by two pieces of code, at two moments,
\* from the same settings: a domain that the MCP gateway lets a tool fetch is one
\* that the proxy lets the guest read and write, whatever overlaps, as long as no
\* file was written between the two.  allow_all_domains, which replaces the
\* gateway's policy alone, is left out.
GatewayWithinProxy ==
    ~mixed => \A v \in Running, d \in Domains :
        EvaluateDomain(vm[v].dom, d) /\ vm[v].dom # Everything
            => Deciding(vm[v].net, d).read /\ Deciding(vm[v].net, d).write

\* A variable of a setting that is not given to the guest, and of which lint says
\* nothing: one with no text, be it that the value has another type; one with a text
\* that is too long or a file with a NUL byte; one whose name is refused; and one
\* that a dynamic setting gives.
Silent(R, id, k) ==
    \/ GuestText(id, R[id].value) \in {"", "too long"}
    \/ R[id].value.t = "file" /\ R[id].value.v.content = "nul"
    \/ ~ValidKey(k)
    \/ id \notin Dynamic /\ \E j \in Dynamic \cap DOMAIN R : k \in Variables(j)

\* Between two commands, what a setting says of the guest reaches the next machine,
\* or is an error of config_lint, or is one of the cases that are silently left out:
\* its text is the value of each of its variables, which no other setting takes over
\* but a dynamic one; its file is written, unless the path holds a NUL byte; and a
\* number a machine is booted with lies within its limits, also when it is negative
\* in a file edited by hand, which the conversion to u32 makes huge.
AppliedOrReported ==
    ~Busy => \A v \in Venvs \cup {None} :
      LET R == Merged(v)
          env == GuestEnv(R)
      IN \A id \in DOMAIN R :
        \/ LintErrors(R, id) # {}
        \/ /\ \A k \in Variables(id) : \/ Silent(R, id, k)
                                       \/ /\ k \in DOMAIN env
                                          /\ env[k] = GuestText(id, R[id].value)
           /\ (/\ R[id].value.t = "file" /\ R[id].value.v.content # ""
               /\ R[id].value.v.path # "nul") => id \in GuestFiles(R)
           /\ (id \in Range(Order) /\ Def(id).type = "number") =>
                 VmSetting(R, id, Def(id).min) \in Def(id).min .. Def(id).max
==============================================================================
