----------------------------- MODULE MCCatalog -----------------------------
(***************************************************************************)
(* Two versions of a template for TLC.  The first has dependent parameters *)
(* shared by all instances, the second also parameters for each instance.  *)
(***************************************************************************)
EXTENDS Catalog, TLC

Parameter(key, name, type, required, per_instance, rules) ==
  [key |-> key, tofu_variable_name |-> name, type |-> type, min |-> 1,
   max |-> 2, options |-> {1, 2}, required |-> required,
   per_instance |-> per_instance, depends_on |-> rules]

Rule(key, operator, value, effect) ==
  [parameter_key |-> key, operator |-> operator, value |-> value,
   effect |-> effect]

MCVersions == {"1.0.0", "2.0.0"}

MCDefinition ==
  "1.0.0" :>
    << Parameter("os", "os_type", "enum", TRUE, "false", <<>>),
       Parameter("disks", "disk_count", "integer", FALSE, "false",
                 << Rule("os", "in", {1, 2}, "visible"),
                    Rule("os", "neq", 2, "visible") >>),
       Parameter("raid", "raid", "string", FALSE, "false",
                 << Rule("disks", "gt", 1, "required"),
                    Rule("os", "eq", 1, "visible") >>) >>
  @@ "2.0.0" :>
    << Parameter("os", "os_type", "enum", TRUE, "false", <<>>),
       Parameter("disks", "disk_count", "integer", FALSE, "false",
                 << Rule("os", "gte", 1, "visible"),
                    Rule("raid", "lt", 1, "disabled") >>),
       Parameter("raid", "raid", "integer", TRUE, "true", <<>>),
       Parameter("host", "hostname", "string", FALSE, "auto", <<>>) >>

\* Some of the keys os and disks, each with a fitting value or a wrong one.
MCValues ==
  {values \in UNION {[keys -> {1, 2, 3, Text, Null}] : keys \in SUBSET {"os", "disks"}} :
     "os" \in DOMAIN values => values["os"] \in {1, 2, Text}}
MCItemValues == MCValues \cup {values @@ ("raid" :> 1) : values \in MCValues}
MCInstanceValues ==
  {<<>>, <<"raid" :> 1>>, <<"raid" :> 1, "raid" :> 3>>, <<<<>>, "host" :> 1>>}
=============================================================================
