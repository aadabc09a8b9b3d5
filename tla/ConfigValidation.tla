--------------------------- MODULE ConfigValidation ---------------------------
(***************************************************************************)
(* Up-front validation of a monitor configuration (validator.go: package   *)
(* validation, and the monitors package's validateConfig,                  *)
(* configAcceptsEndpoints and isConfigUnique).                             *)
(*                                                                         *)
(* A configuration is a record of the fields the checks read.  The struct  *)
(* tags that validator.v9 evaluates, the module's own Validate method and  *)
(* the discovery-rule parser live outside this repository: their verdicts  *)
(* are fields of the record (structOK, custom) or a constant (ValidRules). *)
(* The functions have no state of their own; the model's state is the      *)
(* configuration handed to them and the answers they gave, so each call is *)
(* one step.                                                               *)
(***************************************************************************)
EXTENDS Integers

CONSTANTS
    Types,            \* monitor types a configuration can name
    MonitorFactories, \* the types with a registered factory
    Intervals,        \* values of intervalSeconds (a Go int)
    Rules,            \* discovery rules a configuration can carry
    ValidRules,       \* the rules services.ValidateDiscoveryRule accepts
    NoRule,           \* "", no discovery rule
    Tags,             \* values of the acceptsEndpoints tag of MonitorConfig
    NoField,          \* the config struct embeds no MonitorConfig field
    OtherConfs,       \* configurations a comparison list can hold
    None              \* no call made yet

\* The error validateConfig returns, in the order of its early returns.
Errors == <<"type not recognized", "invalid intervalSeconds",
            "does not support discovery", "discovery rule is invalid",
            "configEndpointMappings without a discovery rule",
            "struct validation", "custom validation">>
NoError == "nil"

Confs ==
    [type : Types, intervalSeconds : Intervals, discoveryRule : Rules,
     mappings : 0..1,            \* len(conf.ConfigEndpointMappings), capped
     acceptsEndpoints : Tags \cup {NoField},
     structOK : BOOLEAN,         \* validate.Struct(confStruct) == nil
     custom : {"none", "ok", "err"}] \* not Validatable / Validate() result

\* MonitorConfigCore(): the part of a configuration Equals compares.
Core(c) == [type |-> c.type, intervalSeconds |-> c.intervalSeconds,
            discoveryRule |-> c.discoveryRule, mappings |-> c.mappings]

VARIABLES
    conf,      \* the configuration being validated
    others,    \* the configurations it is compared with
    result,    \* what validateConfig returned (None: not called)
    unique     \* what isConfigUnique returned (None: not called)

vars == <<conf, others, result, unique>>

-----------------------------------------------------------------------------
\* configAcceptsEndpoints: the acceptsEndpoints tag of the embedded
\* MonitorConfig field is "true"; false when there is no such field.
configAcceptsEndpoints(c) ==
    IF c.acceptsEndpoints = NoField THEN FALSE ELSE c.acceptsEndpoints = "true"

\* ValidateStruct: the verdict of the tag validator.
ValidateStruct(c) == c.structOK

\* ValidateCustomConfig: nil unless the config implements Validatable and
\* its Validate returns an error.
ValidateCustomConfig(c) == c.custom # "err"

\* The checks of validateConfig in source order: Fails(c)[i] when check i
\* returns Errors[i].
Fails(c) ==
    <<c.type \notin MonitorFactories,
      c.intervalSeconds <= 0,
      ~configAcceptsEndpoints(c) /\ c.discoveryRule # NoRule,
      c.discoveryRule # NoRule /\ c.discoveryRule \notin ValidRules,
      c.mappings > 0 /\ c.discoveryRule = NoRule,
      ~ValidateStruct(c),
      ~ValidateCustomConfig(c)>>

\* validateConfig: the first check that fails returns; nil if none does.
validateConfig(c) ==
    LET F == {i \in DOMAIN Errors : Fails(c)[i]} IN
    IF F = {} THEN NoError
    ELSE Errors[CHOOSE i \in F : \A j \in F : i <= j]

\* isConfigUnique: TRUE as soon as some other configuration's core Equals
\* conf's, FALSE after the loop.
isConfigUnique(c, O) == \E o \in O : Core(o) = Core(c)

-----------------------------------------------------------------------------
Init ==
    /\ conf \in Confs
    /\ others \in SUBSET OtherConfs
    /\ result = None
    /\ unique = None

Validate ==
    /\ result = None
    /\ result' = validateConfig(conf)
    /\ UNCHANGED <<conf, others, unique>>

CheckUnique ==
    /\ unique = None
    /\ unique' = isConfigUnique(conf, others)
    /\ UNCHANGED <<conf, others, result>>

Next == Validate \/ CheckUnique

Spec == Init /\ [][Next]_vars

=============================================================================
