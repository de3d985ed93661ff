------------------------------- MODULE DatabaseCli -------------------------------
(***************************************************************************)
(* The database verbs of @theokit/plugin-db-drizzle: drizzleDb resolves    *)
(* the options (options.ts), buildDbCommands describes each verb           *)
(* (cli/db.ts), and a script of the project runs one: it refuses reset     *)
(* without --force and writes the rendered config before the two verbs     *)
(* that read nothing else.  The script (README, "A db script") and         *)
(* drizzle-kit are external.  The options change between runs, the config  *)
(* file stays on the disk.                                                 *)
(***************************************************************************)
EXTENDS Naturals, Sequences, SequencesExt

CONSTANTS
    DbOptions,  \* option objects given to drizzleDb: [driver, url, seed, reset]
    NotSet,     \* an option left out
    MaxRuns     \* bound on the verbs run

VARIABLES
    options,  \* what drizzleDb resolved last, or NoOptions
    drizzle,  \* the drizzle config on the disk: [driver, url], or NoConfig
    spawned   \* the last verb run: [verb, args, against, status, force, under, number]

cliVars == <<options, drizzle, spawned>>

Verbs == {"generate", "migrate", "push", "studio", "reset", "seed", "check"}
Drivers == {"sqlite", "postgres", "mysql"}
Defaults == {"schemaPath", "migrationsPath", "configPath", "localhost:4983"}
Dialects == {"sqlite", "postgresql", "mysql"}

ASSUME CliAssumption ==
    /\ MaxRuns \in Nat
    /\ \A o \in DbOptions : o.driver \in Drivers \cup {NotSet}
    /\ NotSet \notin Drivers \cup Dialects \cup Defaults

NoOptions == [driver |-> NotSet, url |-> NotSet, seed |-> NotSet, reset |-> NotSet, declared |-> FALSE,
              studio |-> NotSet]
NoConfig == [driver |-> NotSet, url |-> NotSet]
NothingRan == [verb |-> "none", args |-> <<>>, against |-> NoConfig, status |-> "none", force |-> FALSE,
           under |-> NoOptions, number |-> 0]

CliTypeOK ==
    /\ options.declared \in BOOLEAN
    /\ drizzle.url \in {NotSet} \cup {o.url : o \in DbOptions}
    /\ spawned.verb \in Verbs \cup {"none"}
    /\ spawned.status \in {"none", "ran", "threw", "needs force"}

CliInit == options = NoOptions /\ drizzle = NoConfig /\ spawned = NothingRan

----------------------------------------------------------------------------
(* resolveOptions: the defaults are filled, the rest passes through.       *)
ResolveOptions(o) ==
    [driver |-> o.driver, url |-> o.url, seed |-> o.seed, reset |-> o.reset, declared |-> TRUE,
     studio |-> "localhost:4983"]

DeclareDatabase(o) ==
    /\ spawned.number < MaxRuns /\ options # ResolveOptions(o)
    /\ options' = ResolveOptions(o)
    /\ UNCHANGED <<drizzle, spawned>>

(* How a verb runs, and what drizzle-kit was measured to accept for it.    *)
KindOf(verb) ==
    IF verb \in {"seed", "reset"} THEN "user-script"
    ELSE IF verb \in {"migrate", "studio"} THEN "drizzle-kit-with-config" ELSE "drizzle-kit"
Accepts == [generate |-> {"dialect", "schema", "out"}, push |-> {"dialect", "schema", "url"},
            check |-> {"dialect", "out"}]
RequiresForce(verb) == verb = "reset"
Dialect(driver) == CASE driver = "postgres" -> "postgresql" [] OTHER -> driver

(* baseArgs and configArgs: a flag with its value, only where there is one.*)
Flag(name, value) == <<name, value>>
MutUrlFlag(verb) == IF "url" \in Accepts[verb] THEN <<Flag("url", options.url)>> ELSE <<>>
UrlFlag(verb) ==
    IF "url" \in Accepts[verb] /\ options.url # NotSet THEN <<Flag("url", options.url)>> ELSE <<>>
BaseArgs(verb) ==
    (IF "dialect" \in Accepts[verb] /\ options.driver # NotSet
     THEN <<Flag("dialect", Dialect(options.driver))>> ELSE <<>>)
    \o (IF "schema" \in Accepts[verb] THEN <<Flag("schema", "schemaPath")>> ELSE <<>>)
    \o (IF "out" \in Accepts[verb] THEN <<Flag("out", "migrationsPath")>> ELSE <<>>)
    \o UrlFlag(verb)
ConfigArgs(verb) ==
    <<Flag("config", "configPath")>>
        \o (IF verb = "studio" THEN <<Flag("host and port", options.studio)>> ELSE <<>>)
ScriptOf(verb) == IF verb = "seed" THEN options.seed ELSE options.reset
BuildArgs(verb) ==
    CASE KindOf(verb) = "user-script" -> <<Flag("script", ScriptOf(verb))>>
      [] KindOf(verb) = "drizzle-kit-with-config" -> ConfigArgs(verb)
      [] OTHER -> BaseArgs(verb)

(* scriptArgs and renderDrizzleConfig throw on what is not configured.     *)
Throws(verb) ==
    \/ KindOf(verb) = "user-script" /\ ScriptOf(verb) \in {NotSet, ""}
    \/ KindOf(verb) = "drizzle-kit-with-config" /\ NotSet \in {options.driver, options.url}
RenderDrizzleConfig == [driver |-> Dialect(options.driver), url |-> options.url]

(* The project's script runs one verb.                                     *)
RunVerb(verb, force) ==
    /\ options.declared /\ spawned.number < MaxRuns
    /\ LET status == IF RequiresForce(verb) /\ ~force THEN "needs force"
                     ELSE IF Throws(verb) THEN "threw" ELSE "ran"
           writes == status = "ran" /\ KindOf(verb) = "drizzle-kit-with-config"
       IN /\ drizzle' = IF writes THEN RenderDrizzleConfig ELSE drizzle
          /\ spawned' = [verb |-> verb, status |-> status, force |-> force,
                         under |-> options, number |-> spawned.number + 1,
                         args |-> IF status = "ran" THEN BuildArgs(verb) ELSE <<>>,
                         against |-> IF KindOf(verb) = "drizzle-kit-with-config" THEN drizzle'
                                     ELSE NoConfig]
    /\ UNCHANGED options

CliNext ==
    \/ \E o \in DbOptions : DeclareDatabase(o)
    \/ \E verb \in Verbs, force \in BOOLEAN : RunVerb(verb, force)

CliSpec == CliInit /\ [][CliNext]_cliVars

----------------------------------------------------------------------------
Flags(args) == {f[1] : f \in ToSet(args)}

(* What a verb runs with has a value after every flag and a script to run, *)
(* names no flag the verb does not take, and leads to the database of the  *)
(* options in force at that run: never one an earlier run left in the      *)
(* config file.                                                            *)
ArgvIsWhole ==
    spawned.status = "ran" =>
        LET verb == spawned.verb
            o == spawned.under
        IN /\ \A f \in ToSet(spawned.args) :
                 f[2] # NotSet /\ (verb \in {"seed", "reset"} => f[2] # "")
           /\ verb \in DOMAIN Accepts => Flags(spawned.args) \subseteq Accepts[verb]
           /\ verb \in {"migrate", "studio"} =>
                 spawned.against = [driver |-> Dialect(o.driver), url |-> o.url]
           /\ verb = "push" /\ o.url # NotSet => <<"url", o.url>> \in ToSet(spawned.args)
           /\ verb = "reset" => spawned.force

(* What the scripts promise, part by part.                                 *)
ArgvKept == CliTypeOK /\ ArgvIsWhole
=============================================================================
