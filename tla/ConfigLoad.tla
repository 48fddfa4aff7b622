----------------------------- MODULE ConfigLoad -----------------------------
(***************************************************************************)
(* load_config: one plugin's settings and secrets from an optional file    *)
(* and from environment variables of three kinds, in the order the loader  *)
(* goes through them.                                                      *)
(*                                                                         *)
(* A value is where it came from; that is what precedence is about.  What  *)
(* the plugin's models refuse is part of the input: values that a field    *)
(* validator refuses, and values of several fields that a model validator  *)
(* refuses together, one that is only a default among them.                *)
(***************************************************************************)
EXTENDS Naturals

CONSTANTS
  Settings,      \* fields of the settings model
  Secrets,       \* fields of the secrets model
  Required,      \* fields without a default, of both
  Schemas        \* what the two models of a plugin may refuse

VARIABLES
  input,       \* the file and the environment; never changes
  step,        \* how far load_config is, or how it ended
  settings,    \* settings_data: a source for every field given
  secrets      \* resolved_secrets: likewise

vars == <<input, step, settings, secrets>>

Sources == {"file", "generic", "prefix"}
References == {"absent", "set", "unset", "literal"}

\* What is wrong with the document, if anything; "none": no --config.
Documents == {"none", "unreadable", "version", "otherPlugin", "unknownField", "valid"}

Inputs ==
  [document : Documents,
   given : [Settings -> SUBSET Sources],    \* where a setting has a value
   schema : Schemas,                        \* faults of settings and of secrets
   reference : [Secrets -> References],     \* the entry of the file
   secretPrefix : SUBSET Secrets]           \* secrets with a prefix variable

\* A fault gives fields the values that are refused together.  "default": the
\* field is not given, so that it has its default, or no value at all.
Has(data, fault) ==
  \A f \in DOMAIN fault : fault[f] = IF f \in DOMAIN data THEN data[f] ELSE "default"

\* Models that refuse nothing but a missing field.
Lenient == {[settings |-> {}, secrets |-> {}]}

GivenSecret(in, f, source) ==
  IF source = "prefix" THEN f \in in.secretPrefix ELSE in.reference[f] = "set"

\* Without a document nothing comes from a file, a fault is one of values that
\* are given, and the defaults of a model are none.
Possible(in) ==
  /\ in.document \notin {"valid", "unknownField"} =>
       /\ \A f \in Settings : "file" \notin in.given[f]
       /\ \A f \in Secrets : in.reference[f] = "absent"
  /\ \A fault \in in.schema.settings :
       /\ \E f \in DOMAIN fault : fault[f] # "default"
       /\ \A f \in DOMAIN fault : fault[f] \in in.given[f] \union {"default"}
  /\ \A fault \in in.schema.secrets :
       /\ \E f \in DOMAIN fault : fault[f] # "default"
       /\ \A f \in DOMAIN fault : fault[f] # "default" => GivenSecret(in, f, fault[f])

Init ==
  /\ input \in {in \in Inputs : Possible(in)}
  /\ step = "document"
  /\ settings = [f \in {} |-> "file"]
  /\ secrets = [f \in {} |-> "file"]

EnvOnly == input.document = "none"

-----------------------------------------------------------------------------

Fails == step' = "CONFIG_ERROR" /\ UNCHANGED <<input, settings, secrets>>

\* Later sources replace what earlier ones gave.
Overridden(data, source, fields) ==
  [f \in fields \union DOMAIN data |-> IF f \in fields THEN source ELSE data[f]]

Given(source) == {f \in Settings : source \in input.given[f]}

\* The file is read and its fields are checked against the schema.
ReadDocument ==
  /\ step = "document"
  /\ IF input.document \notin {"none", "valid"} THEN Fails
     ELSE /\ settings' = [f \in Given("file") |-> "file"]
          /\ step' = "generic"
          /\ UNCHANGED <<input, secrets>>

\* MCP_STDIO__SETTINGS__<FIELD>.
ApplySettingsOverrides ==
  /\ step = "generic"
  /\ settings' = Overridden(settings, "generic", Given("generic"))
  /\ step' = "prefix"
  /\ UNCHANGED <<input, secrets>>

\* A required field that no variable and nothing before gave a value.
Missing(data, fields, variables) ==
  EnvOnly /\ \E f \in (fields \cap Required) \ variables : f \notin DOMAIN data

\* Variant: a value that is there already is kept.
PrefixKept(data, fields) ==
  [f \in fields \union DOMAIN data |-> IF f \in DOMAIN data THEN data[f] ELSE "prefix"]

PrefixWins(data, fields) == Overridden(data, "prefix", fields)

\* <PREFIX>_<FIELD>.
ApplyPrefixOverrides ==
  /\ step = "prefix"
  /\ IF Missing(settings, Settings, Given("prefix")) THEN Fails
     ELSE /\ settings' = PrefixWins(settings, Given("prefix"))
          /\ step' = "validate"
          /\ UNCHANGED <<input, secrets>>

\* A model accepts: required fields, and no values that it refuses.
Valid(data, fields, faults) ==
  fields \cap Required \subseteq DOMAIN data /\ \A fault \in faults : ~Has(data, fault)

ValidateSettings ==
  /\ step = "validate"
  /\ IF ~Valid(settings, Settings, input.schema.settings) THEN Fails
     ELSE step' = "references" /\ UNCHANGED <<input, settings, secrets>>

\* Every entry under secrets names a variable that is set.
ResolveReferences ==
  /\ step = "references"
  /\ IF \E f \in Secrets : input.reference[f] \in {"unset", "literal"} THEN Fails
     ELSE /\ secrets' = [f \in {g \in Secrets : input.reference[g] = "set"} |-> "file"]
          /\ step' = "secrets"
          /\ UNCHANGED <<input, settings>>

\* <PREFIX>_<FIELD> again, and the secrets model.
ApplySecretOverrides ==
  /\ step = "secrets"
  /\ LET given == PrefixWins(secrets, input.secretPrefix)
     IN  IF Missing(secrets, Secrets, input.secretPrefix)
           \/ ~Valid(given, Secrets, input.schema.secrets)
         THEN Fails
         ELSE secrets' = given /\ step' = "loaded" /\ UNCHANGED <<input, settings>>

Next ==
  ReadDocument \/ ApplySettingsOverrides \/ ApplyPrefixOverrides \/ ValidateSettings
    \/ ResolveReferences \/ ApplySecretOverrides

Spec == Init /\ [][Next]_vars

-----------------------------------------------------------------------------
(* Properties. *)

Loaded == step = "loaded"

\* What the sources say, the highest that has a value: <PREFIX>_, then
\* MCP_STDIO__SETTINGS__, then the file.
SettingsInEffect ==
  [f \in {g \in Settings : input.given[g] # {}} |->
     LET given == input.given[f]
     IN  IF "prefix" \in given THEN "prefix" ELSE IF "generic" \in given THEN "generic" ELSE "file"]
SecretsInEffect ==
  [f \in {g \in Secrets : g \in input.secretPrefix \/ input.reference[g] = "set"} |->
     IF f \in input.secretPrefix THEN "prefix" ELSE "file"]

\* What is loaded is what the sources say, whatever the lower ones say.
PrecedenceHolds == Loaded => settings = SettingsInEffect /\ secrets = SecretsInEffect

\* Nothing a plugin is started with was refused by its models, for itself or
\* with the others, a required field has a value, and no entry of the file was
\* taken for a credential.
LoadedIsValid ==
  Loaded =>
    /\ Required \subseteq DOMAIN settings \union DOMAIN secrets
    /\ \A fault \in input.schema.settings : ~Has(settings, fault)
    /\ \A fault \in input.schema.secrets : ~Has(secrets, fault)
    /\ \A f \in Secrets : input.reference[f] # "literal"

\* A value that is overridden is not validated and a field with a default need
\* not be given: a start fails for the document, a required field, an entry
\* under secrets or values in effect that a model refuses, and for nothing else.
FailsForAReason ==
  step = "CONFIG_ERROR" =>
    \/ input.document \notin {"none", "valid"}
    \/ \E f \in Settings \cap Required : input.given[f] = {}
    \/ \E f \in Secrets :
         \/ input.reference[f] \in {"unset", "literal"}
         \/ f \in Required /\ input.reference[f] = "absent" /\ f \notin input.secretPrefix
    \/ \E fault \in input.schema.settings : Has(SettingsInEffect, fault)
    \/ \E fault \in input.schema.secrets : Has(SecretsInEffect, fault)

\* "Environment variables override file secrets": with its prefix variable set
\* a secret does not need the variable the file names.
OverriddenReferenceIsUnused ==
  step = "CONFIG_ERROR" /\ input.document = "valid" =>
    \/ ~Valid(settings, Settings, input.schema.settings)
    \/ \E f \in Secrets : f \notin input.secretPrefix \/ input.reference[f] = "literal"
    \/ \E fault \in input.schema.secrets : Has(SecretsInEffect, fault)
=============================================================================
