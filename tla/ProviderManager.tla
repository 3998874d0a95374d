---------------------------- MODULE ProviderManager ----------------------------
(* The registry of LLM providers (pkg/llm/provider.go): registration, the    *)
(* default, calls that look a provider up under the lock and use it outside, *)
(* surveys over a copy of the registry, and the streaming settings, which    *)
(* are edited in place without a lock.                                       *)
EXTENDS Naturals, FiniteSets

CONSTANTS
    Callers,        \* goroutines
    Names,          \* provider names
    MaxProviders,   \* bound: provider objects ever created
    Modes,          \* streaming modes asked for: none, auto, forced
    None            \* no name, no operation

VARIABLES
    providers,      \* providers: name -> object
    defaultProvider,
    closed,         \* objects Close was called on
    streaming,      \* object -> [enabled, mode] of its StreamingConfig
    created,        \* objects created so far
    op,             \* caller -> operation under way
    torn            \* ghost: objects whose settings two callers edited at once

managerVars == <<providers, defaultProvider, closed, streaming, created, op, torn>>

Objects == 1 .. MaxProviders
DefaultStreaming == [enabled |-> FALSE, mode |-> "auto"]
Idle == [kind |-> "idle"]
Set(c, o) == op' = [op EXCEPT ![c] = o]
Restrict(f, S) == [x \in S |-> f[x]]

Init ==
    /\ providers = <<>> /\ defaultProvider = None /\ closed = {} /\ created = 0 /\ torn = {}
    /\ streaming = [o \in Objects |-> DefaultStreaming]
    /\ op = [c \in Callers |-> Idle]

RegisterProvider(name) ==
    /\ created < MaxProviders /\ name \notin DOMAIN providers
    /\ created' = created + 1
    /\ providers' = [n \in DOMAIN providers \union {name} |-> IF n = name THEN created' ELSE providers[n]]
    /\ defaultProvider' = IF defaultProvider = None THEN name ELSE defaultProvider
    /\ UNCHANGED <<closed, streaming, op, torn>>

(* Mutant: the default stays when its provider goes. *)
Bug_DefaultStays(name, rest) == {defaultProvider}

NextDefault(name, rest) ==
    IF defaultProvider # name THEN {defaultProvider} ELSE IF rest = {} THEN {None} ELSE rest

UnregisterProvider(name) ==
    /\ name \in DOMAIN providers
    /\ closed' = closed \union {providers[name]}
    /\ providers' = Restrict(providers, DOMAIN providers \ {name})
    /\ defaultProvider' \in NextDefault(name, DOMAIN providers')
    /\ UNCHANGED <<streaming, created, op, torn>>

SetDefaultProvider(name) ==
    /\ name \in DOMAIN providers /\ defaultProvider' = name
    /\ UNCHANGED <<providers, closed, streaming, created, op, torn>>

Close ==
    /\ closed' = closed \union {providers[n] : n \in DOMAIN providers}
    /\ UNCHANGED <<providers, defaultProvider, streaming, created, op, torn>>

(* Complete, CompleteStream, ...WithMode, GetProviderModels: a look-up under *)
(* the lock, then a call outside it. The default is not looked up safely: a  *)
(* name that is not registered would give a nil provider and a panic.        *)
Lookup(c, name) ==
    /\ op[c] = Idle
    /\ \/ name \in DOMAIN providers /\ Set(c, [kind |-> "use", object |-> providers[name]])
       \/ /\ name = None /\ defaultProvider # None
          /\ Set(c, IF defaultProvider \in DOMAIN providers
                    THEN [kind |-> "use", object |-> providers[defaultProvider]] ELSE [kind |-> "panic"])
    /\ UNCHANGED <<providers, defaultProvider, closed, streaming, created, torn>>

(* EnableStreaming, DisableStreaming and SetStreamingMode write two fields,  *)
(* the last of them in the other order.                                      *)
Switch(c, name, field, mode) ==
    /\ op[c] = Idle /\ name \in DOMAIN providers
    /\ field \in {"enabled", "mode"} /\ (field = "enabled" => mode \in {"auto", "none"})
    /\ Set(c, [kind |-> "switch", object |-> providers[name], first |-> field, mode |-> mode])
    /\ torn' = torn \union {providers[name] : d \in {d \in Callers : op[d].kind \in {"switch", "switched"}
                                                            /\ op[d].object = providers[name]}}
    /\ UNCHANGED <<providers, defaultProvider, closed, streaming, created>>

Written(settings, field, mode) ==
    IF field = "enabled" THEN [settings EXCEPT !.enabled = mode # "none"] ELSE [settings EXCEPT !.mode = mode]

WriteFirst(c) ==
    /\ op[c].kind = "switch"
    /\ streaming' = [streaming EXCEPT ![op[c].object] = Written(@, op[c].first, op[c].mode)]
    /\ Set(c, [op[c] EXCEPT !.kind = "switched"])
    /\ UNCHANGED <<providers, defaultProvider, closed, created, torn>>

WriteSecond(c) ==
    /\ op[c].kind = "switched"
    /\ streaming' = [streaming EXCEPT ![op[c].object] =
                        Written(@, IF op[c].first = "mode" THEN "enabled" ELSE "mode", op[c].mode)]
    /\ Set(c, Idle)
    /\ UNCHANGED <<providers, defaultProvider, closed, created, torn>>

(* HealthCheck and GetAllModels ask every provider of a copy. *)
Survey(c) ==
    /\ op[c] = Idle
    /\ Set(c, [kind |-> "survey", left |-> providers])
    /\ UNCHANGED <<providers, defaultProvider, closed, streaming, created, torn>>

Answer(c) ==
    /\ op[c].kind = "survey"
    /\ \E n \in DOMAIN op[c].left : Set(c, [op[c] EXCEPT !.left = Restrict(@, DOMAIN @ \ {n})])
    /\ UNCHANGED <<providers, defaultProvider, closed, streaming, created, torn>>

Return(c) ==
    /\ op[c].kind = "use" \/ (op[c].kind = "survey" /\ op[c].left = <<>>)
    /\ Set(c, Idle)
    /\ UNCHANGED <<providers, defaultProvider, closed, streaming, created, torn>>

Next ==
    \/ Close
    \/ \E n \in Names : RegisterProvider(n) \/ UnregisterProvider(n) \/ SetDefaultProvider(n)
    \/ \E c \in Callers :
          \/ \E n \in Names \union {None} : Lookup(c, n)
          \/ \E n \in Names, f \in {"enabled", "mode"}, m \in Modes : Switch(c, n, f, m)
          \/ WriteFirst(c) \/ WriteSecond(c) \/ Survey(c) \/ Answer(c) \/ Return(c)

-------------------------------------------------------------------------------
(* While any provider is registered there is a default, and it is one of     *)
(* them, so that a call without a name finds a provider and never a nil; and *)
(* streaming is never enabled in mode none, unless two callers edited the    *)
(* same provider's settings at once.                                         *)
RegistryIsConsistent ==
    /\ defaultProvider \in IF providers = <<>> THEN {None} ELSE DOMAIN providers
    /\ \A c \in Callers : op[c].kind # "panic"
    /\ \A o \in Objects \ torn :
          (\A c \in Callers : op[c].kind = "switched" => op[c].object # o) =>
              ~(streaming[o].enabled /\ streaming[o].mode = "none")
===============================================================================
