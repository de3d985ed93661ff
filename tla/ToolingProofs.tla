----------------------------- MODULE ToolingProofs -----------------------------
(* What the command line of the database, the gates of a release and the *)
(* gate of the documentation keep, for any options, versions and pages.    *)
EXTENDS DatabaseCli, ManifestGate, DocGate, SequenceTheorems, FiniteSetTheorems,
        WellFoundedInduction, TLAPS

(* What a sequence contains, and a sequence after another.                 *)
LEMMA ContentFacts ==
    ASSUME NEW S, NEW s \in Seq(S)
    PROVE  ToSet(s) \subseteq S /\ \A x : x \in ToSet(s) <=> \E i \in 1 .. Len(s) : s[i] = x
<1>1. DOMAIN s = 1 .. Len(s) /\ \A i \in 1 .. Len(s) : s[i] \in S
  OBVIOUS
<1>2. \A x : x \in ToSet(s) <=> \E i \in 1 .. Len(s) : s[i] = x
  BY <1>1, Zenon DEF ToSet
<1> QED
  BY <1>1, <1>2

LEMMA JoinedContent ==
    ASSUME NEW S, NEW s \in Seq(S), NEW t \in Seq(S)
    PROVE  s \o t \in Seq(S) /\ ToSet(s \o t) = ToSet(s) \cup ToSet(t)
<1>1. /\ s \o t \in Seq(S) /\ Len(s \o t) = Len(s) + Len(t)
      /\ \A i \in 1 .. Len(s) + Len(t) :
            (s \o t)[i] = IF i <= Len(s) THEN s[i] ELSE t[i - Len(s)]
  BY ConcatProperties
<1>2. /\ \A x : x \in ToSet(s \o t) <=> \E i \in 1 .. Len(s \o t) : (s \o t)[i] = x
      /\ \A x : x \in ToSet(s) <=> \E i \in 1 .. Len(s) : s[i] = x
      /\ \A x : x \in ToSet(t) <=> \E i \in 1 .. Len(t) : t[i] = x
  BY <1>1, ContentFacts
<1>3. Len(s) \in Nat /\ Len(t) \in Nat
  OBVIOUS
<1> HIDE DEF ToSet
<1>4. ASSUME NEW x \in ToSet(s \o t) PROVE x \in ToSet(s) \cup ToSet(t)
  <2>1. PICK i \in 1 .. Len(s) + Len(t) : (s \o t)[i] = x
    BY <1>1, <1>2
  <2>2. CASE i <= Len(s)
    BY <1>1, <1>2, <1>3, <2>1, <2>2
  <2>3. CASE i > Len(s)
    <3>1. i - Len(s) \in 1 .. Len(t) /\ t[i - Len(s)] = x
      BY <1>1, <1>3, <2>1, <2>3
    <3> QED
      BY <1>2, <3>1
  <2> QED
    BY <1>3, <2>2, <2>3
<1>5. ASSUME NEW x \in ToSet(s) PROVE x \in ToSet(s \o t)
  <2>1. PICK i \in 1 .. Len(s) : s[i] = x
    BY <1>2
  <2>2. i \in 1 .. Len(s) + Len(t) /\ (s \o t)[i] = x
    BY <1>1, <1>3, <2>1
  <2> QED
    BY <1>1, <1>2, <2>2
<1>6. ASSUME NEW x \in ToSet(t) PROVE x \in ToSet(s \o t)
  <2>1. PICK i \in 1 .. Len(t) : t[i] = x
    BY <1>2
  <2>2. /\ Len(s) + i \in 1 .. Len(s) + Len(t) /\ ~(Len(s) + i <= Len(s))
        /\ (Len(s) + i) - Len(s) = i
    BY <1>3
  <2>3. (s \o t)[Len(s) + i] = x
    BY <1>1, <2>1, <2>2
  <2> QED
    BY <1>1, <1>2, <2>2, <2>3
<1> QED
  BY <1>1, <1>4, <1>5, <1>6

LEMMA SmallContent ==
    /\ ToSet(<<>>) = {} /\ \A S : <<>> \in Seq(S)
    /\ \A x : ToSet(<<x>>) = {x} /\ \A S : x \in S => <<x>> \in Seq(S)
<1>1. ASSUME NEW S PROVE <<>> \in Seq(S)
  OBVIOUS
<1>2. ToSet(<<>>) = {}
  <2>1. DOMAIN <<>> = {}
    OBVIOUS
  <2> QED
    BY <2>1, Zenon DEF ToSet
<1>3. ASSUME NEW x PROVE ToSet(<<x>>) = {x}
  <2>1. DOMAIN <<x>> = {1} /\ <<x>>[1] = x
    OBVIOUS
  <2> QED
    BY <2>1, Zenon DEF ToSet
<1>4. ASSUME NEW x, NEW S, x \in S PROVE <<x>> \in Seq(S)
  BY <1>4
<1> QED
  BY <1>1, <1>2, <1>3, <1>4

----------------------------------------------------------------------------
(* The options in force are those of one declaration.                      *)
Declared == options = NoOptions \/ \E o \in DbOptions : options = ResolveOptions(o)

CliIInv == CliTypeOK /\ Declared /\ ArgvIsWhole

LEMMA DeclaredFacts ==
    ASSUME Declared, options.declared
    PROVE  /\ options.driver \in Drivers \cup {NotSet}
           /\ options.url \in {o.url : o \in DbOptions} /\ options.studio = "localhost:4983"
           /\ options.driver # NotSet => Dialect(options.driver) # NotSet
BY CliAssumption DEF Declared, NoOptions, ResolveOptions, Drivers, Dialects, Dialect

(* A flag is written with a value, and only where the verb takes it.       *)
LEMMA BaseFlags ==
    ASSUME Declared, options.declared, NEW verb \in DOMAIN Accepts
    PROVE  /\ \A f \in ToSet(BaseArgs(verb)) : f[2] # NotSet
           /\ Flags(BaseArgs(verb)) \subseteq Accepts[verb]
           /\ verb = "push" /\ options.url # NotSet => <<"url", options.url>> \in ToSet(BaseArgs(verb))
<1> DEFINE a1 == IF "dialect" \in Accepts[verb] /\ options.driver # NotSet
                 THEN <<Flag("dialect", Dialect(options.driver))>> ELSE <<>>
           a2 == IF "schema" \in Accepts[verb] THEN <<Flag("schema", "schemaPath")>> ELSE <<>>
           a3 == IF "out" \in Accepts[verb] THEN <<Flag("out", "migrationsPath")>> ELSE <<>>
           a4 == UrlFlag(verb)
           b2 == a1 \o a2
           b3 == b2 \o a3
           S == {Flag("dialect", Dialect(options.driver)), Flag("schema", "schemaPath"),
                 Flag("out", "migrationsPath"), Flag("url", options.url)}
<1>1. a1 \in Seq(S) /\ ToSet(a1) = IF "dialect" \in Accepts[verb] /\ options.driver # NotSet
                                   THEN {Flag("dialect", Dialect(options.driver))} ELSE {}
  BY SmallContent
<1>2. a2 \in Seq(S) /\ ToSet(a2) = IF "schema" \in Accepts[verb] THEN {Flag("schema", "schemaPath")}
                                   ELSE {}
  BY SmallContent
<1>3. a3 \in Seq(S) /\ ToSet(a3) = IF "out" \in Accepts[verb] THEN {Flag("out", "migrationsPath")}
                                   ELSE {}
  BY SmallContent
<1>4. a4 \in Seq(S) /\ ToSet(a4) = IF "url" \in Accepts[verb] /\ options.url # NotSet
                                   THEN {Flag("url", options.url)} ELSE {}
  BY SmallContent DEF UrlFlag
<1>5. BaseArgs(verb) = b3 \o a4
  BY DEF BaseArgs
<1> HIDE DEF a1, a2, a3, a4, S
<1>6. b2 \in Seq(S) /\ ToSet(b2) = ToSet(a1) \cup ToSet(a2)
  BY <1>1, <1>2, JoinedContent
<1> HIDE DEF b2
<1>7. b3 \in Seq(S) /\ ToSet(b3) = ToSet(b2) \cup ToSet(a3)
  BY <1>3, <1>6, JoinedContent
<1> HIDE DEF b3
<1>8. ToSet(b3 \o a4) = ToSet(b3) \cup ToSet(a4)
  BY <1>4, <1>7, JoinedContent
<1>9. options.driver # NotSet => Dialect(options.driver) # NotSet
  BY DeclaredFacts
<1>10. "push" \in DOMAIN Accepts /\ "url" \in Accepts["push"]
  BY DEF Accepts
<1>11. ToSet(BaseArgs(verb)) = ((ToSet(a1) \cup ToSet(a2)) \cup ToSet(a3)) \cup ToSet(a4)
  BY <1>5, <1>6, <1>7, <1>8
<1>12. \A f \in ToSet(BaseArgs(verb)) : f[2] # NotSet /\ f[1] \in Accepts[verb]
  BY <1>1, <1>2, <1>3, <1>4, <1>9, <1>11, CliAssumption DEF Flag, Defaults
<1>13. verb = "push" /\ options.url # NotSet => <<"url", options.url>> \in ToSet(BaseArgs(verb))
  BY <1>4, <1>10, <1>11 DEF Flag
<1> QED
  BY <1>12, <1>13, Zenon DEF Flags

LEMMA ConfigFlags ==
    ASSUME Declared, options.declared, NEW verb
    PROVE  \A f \in ToSet(ConfigArgs(verb)) : f[2] # NotSet
<1> DEFINE a1 == <<Flag("config", "configPath")>>
           a2 == IF verb = "studio" THEN <<Flag("host and port", options.studio)>> ELSE <<>>
           S == {Flag("config", "configPath"), Flag("host and port", options.studio)}
<1>1. a1 \in Seq(S) /\ ToSet(a1) = {Flag("config", "configPath")}
  BY SmallContent
<1>2. a2 \in Seq(S) /\ ToSet(a2) \subseteq {Flag("host and port", options.studio)}
  BY SmallContent
<1>3. ConfigArgs(verb) = a1 \o a2
  BY DEF ConfigArgs
<1> HIDE DEF a1, a2, S
<1>4. a1 \in Seq(S) /\ a2 \in Seq(S)
  BY <1>1, <1>2
<1>5. a1 \o a2 \in Seq(S) /\ ToSet(a1 \o a2) = ToSet(a1) \cup ToSet(a2)
  BY <1>4, JoinedContent
<1>6. ToSet(ConfigArgs(verb)) \subseteq {Flag("config", "configPath"),
                                         Flag("host and port", options.studio)}
  BY <1>1, <1>2, <1>3, <1>5
<1>7. options.studio = "localhost:4983"
  BY DeclaredFacts
<1>8. \A f \in ToSet(ConfigArgs(verb)) : f = Flag("config", "configPath")
                                         \/ f = Flag("host and port", options.studio)
  BY <1>6, Zenon
<1>9. \A f \in ToSet(ConfigArgs(verb)) : f[2] = "configPath" \/ f[2] = "localhost:4983"
  <2>1. Flag("config", "configPath")[2] = "configPath"
    BY DEF Flag
  <2>2. Flag("host and port", options.studio)[2] = options.studio
    BY DEF Flag
  <2> QED
    BY <1>7, <1>8, <2>1, <2>2, Zenon
<1>10. NotSet # "configPath" /\ NotSet # "localhost:4983"
  BY CliAssumption DEF Defaults
<1> QED
  BY <1>9, <1>10

LEMMA RunVerbKeeps ==
    ASSUME CliIInv, NEW verb \in Verbs, NEW force \in BOOLEAN, RunVerb(verb, force)
    PROVE  CliIInv'
<1> DEFINE status == IF RequiresForce(verb) /\ ~force THEN "needs force"
                     ELSE IF Throws(verb) THEN "threw" ELSE "ran"
           config == KindOf(verb) = "drizzle-kit-with-config"
<1>1. /\ options.declared /\ UNCHANGED options
      /\ drizzle' = IF status = "ran" /\ config THEN RenderDrizzleConfig ELSE drizzle
      /\ spawned'.verb = verb /\ spawned'.status = status /\ spawned'.force = force
      /\ spawned'.under = options
      /\ spawned'.args = IF status = "ran" THEN BuildArgs(verb) ELSE <<>>
      /\ spawned'.against = IF config THEN drizzle' ELSE NoConfig
  BY DEF RunVerb
<1>2. status \in {"needs force", "threw", "ran"}
  OBVIOUS
<1>3. Declared'
  BY <1>1 DEF CliIInv, Declared, NoOptions
<1>4. CliTypeOK'
  BY <1>1, <1>2, DeclaredFacts DEF CliIInv, CliTypeOK, RenderDrizzleConfig
<1>5. ASSUME status = "ran"
      PROVE  /\ \A f \in ToSet(BuildArgs(verb)) :
                   f[2] # NotSet /\ (verb \in {"seed", "reset"} => f[2] # "")
             /\ verb \in DOMAIN Accepts => Flags(BuildArgs(verb)) \subseteq Accepts[verb]
             /\ verb = "push" /\ options.url # NotSet
                   => <<"url", options.url>> \in ToSet(BuildArgs(verb))
  <2>1. ~Throws(verb)
    BY <1>5
  <2>2. CASE verb \in {"seed", "reset"}
    <3>1. KindOf(verb) = "user-script" /\ verb \notin DOMAIN Accepts /\ verb # "push"
      BY <2>2 DEF KindOf, Accepts
    <3>2. BuildArgs(verb) = <<Flag("script", ScriptOf(verb))>>
      BY <3>1 DEF BuildArgs
    <3>3. ToSet(BuildArgs(verb)) = {Flag("script", ScriptOf(verb))}
      BY <3>2, SmallContent
    <3>4. ScriptOf(verb) \notin {NotSet, ""}
      BY <2>1, <3>1 DEF Throws
    <3>5. \A f \in ToSet(BuildArgs(verb)) : f[2] = ScriptOf(verb)
      BY <3>3 DEF Flag
    <3> QED
      BY <3>1, <3>4, <3>5
  <2>3. CASE verb \in {"migrate", "studio"}
    <3>1. /\ KindOf(verb) = "drizzle-kit-with-config" /\ verb \notin DOMAIN Accepts
          /\ verb \notin {"push", "seed", "reset"}
      BY <2>3 DEF KindOf, Accepts
    <3>2. BuildArgs(verb) = ConfigArgs(verb)
      BY <3>1 DEF BuildArgs
    <3> QED
      BY <1>1, <3>1, <3>2, ConfigFlags DEF CliIInv
  <2>4. CASE verb \in {"generate", "push", "check"}
    <3>1. /\ KindOf(verb) = "drizzle-kit" /\ verb \in DOMAIN Accepts
          /\ verb \notin {"seed", "reset"}
      BY <2>4 DEF KindOf, Accepts
    <3>2. BuildArgs(verb) = BaseArgs(verb)
      BY <3>1 DEF BuildArgs
    <3> QED
      BY <1>1, <3>1, <3>2, BaseFlags DEF CliIInv
  <2> QED
    BY <2>2, <2>3, <2>4 DEF Verbs
<1>6. ASSUME status = "ran", verb \in {"migrate", "studio"}
      PROVE  spawned'.against = [driver |-> Dialect(options.driver), url |-> options.url]
  BY <1>1, <1>6 DEF KindOf, RenderDrizzleConfig
<1>7. status = "ran" /\ verb = "reset" => force
  BY DEF RequiresForce
<1> HIDE DEF status, config
<1>8. ArgvIsWhole'
  BY <1>1, <1>5, <1>6, <1>7 DEF ArgvIsWhole, Dialect, Flags, Accepts
<1> QED
  BY <1>3, <1>4, <1>8 DEF CliIInv

LEMMA CliStarts ==
    ASSUME CliInit
    PROVE  CliIInv
BY DEF CliInit, CliIInv, CliTypeOK, Declared, ArgvIsWhole, NoOptions, NoConfig, NothingRan

LEMMA CliKeeps ==
    ASSUME CliIInv, [CliNext]_cliVars
    PROVE  CliIInv'
<1>1. CASE \E o \in DbOptions : DeclareDatabase(o)
  <2> PICK o \in DbOptions : DeclareDatabase(o)
    BY <1>1
  <2>1. options' = ResolveOptions(o) /\ UNCHANGED <<drizzle, spawned>>
    BY DEF DeclareDatabase
  <2>2. CliTypeOK'
    BY <2>1 DEF CliIInv, CliTypeOK, ResolveOptions
  <2>3. ArgvIsWhole'
    BY <2>1 DEF CliIInv, ArgvIsWhole
  <2> QED
    BY <2>1, <2>2, <2>3 DEF CliIInv, Declared
<1>2. CASE \E verb \in Verbs, force \in BOOLEAN : RunVerb(verb, force)
  BY <1>2, RunVerbKeeps
<1>3. CASE UNCHANGED cliVars
  BY <1>3 DEF cliVars, CliIInv, CliTypeOK, Declared, ArgvIsWhole, NoOptions
<1> QED
  BY <1>1, <1>2, <1>3 DEF CliNext

(* Every run of a verb has a value after each flag, flags its subcommand   *)
(* takes (cli/db.ts:145-149, 195-221), and the database of the options it  *)
(* ran under, whatever an earlier run left on the disk (db.ts:156-162).    *)
THEOREM CommandLineIsWhole == CliSpec => []ArgvKept
<1>1. CliIInv => ArgvKept
  BY DEF CliIInv, ArgvKept
<1> QED
  BY <1>1, CliStarts, CliKeeps, PTL DEF CliSpec

----------------------------------------------------------------------------
Version == Nat \X Nat \X Nat \X {0, 1}

Manifest ==
    [range : Ranges, dev : Releases, installed : Releases \cup {NothingYet}, imports : BOOLEAN,
     exempt : BOOLEAN, key : DecorationKeys, form : Forms \cup {"none"}, documented : BOOLEAN,
     complete : BOOLEAN]

(* The revisions are of one type; a decoration that was released stays one. *)
RevisionsOK ==
    /\ repo \in [Packages -> Manifest]
    /\ verdict.on \in [Packages -> Manifest]
    /\ verdict.green \in BOOLEAN
    /\ released \in [Packages -> Manifest]
    /\ \A p \in Packages : released[p].form # "none" => repo[p].form # "none"

(* A green verdict is about the revision it names.                         *)
VerdictEarned ==
    verdict.green =>
        /\ \A p \in Packages :
              ~ManifestViolated(verdict.on[p]) /\ ~InstalledRefused(verdict.on[p])
        /\ ~KeysViolated(verdict.on)
        /\ verdict.unresolved = Cardinality({p \in Packages : verdict.on[p].form = "call"})

(* The application lists a plugin once, and only one that decorates.       *)
AppOK ==
    /\ app \in Seq(Packages)
    /\ \A i, j \in 1 .. Len(app) : app[i] = app[j] => i = j
    /\ \A i \in 1 .. Len(app) : released[app[i]].form # "none"

GateIInv == RevisionsOK /\ VerdictEarned /\ AppOK

(* The order of versions, on what the range and the manifests hold.        *)
LEMMA VersionsOrdered ==
    ASSUME NEW u \in Version, NEW v \in Version, NEW w \in Version,
           ~IsBelow(u, v), ~IsBelow(v, w)
    PROVE  ~IsBelow(u, w)
<1>1. /\ u[1] \in Nat /\ u[2] \in Nat /\ u[3] \in Nat /\ u[4] \in {0, 1}
      /\ v[1] \in Nat /\ v[2] \in Nat /\ v[3] \in Nat /\ v[4] \in {0, 1}
      /\ w[1] \in Nat /\ w[2] \in Nat /\ w[3] \in Nat /\ w[4] \in {0, 1}
  BY DEF Version
<1> QED
  BY <1>1 DEF IsBelow

(* A set of naturals has a least one.                                      *)
LEMMA LeastOf ==
    ASSUME NEW S \in SUBSET Nat, S # {}
    PROVE  \E n \in S : \A m \in S : n <= m
<1>1. \E n \in S : \A m \in S : ~(<<m, n>> \in OpToRel(<, Nat))
  BY NatLessThanWellFounded, WFMin
<1>2. PICK n \in S : \A m \in S : ~(<<m, n>> \in OpToRel(<, Nat))
  BY <1>1
<1>3. ASSUME NEW m \in S PROVE n <= m
  <2>1. m \in Nat /\ n \in Nat
    OBVIOUS
  <2>2. m < n => <<m, n>> \in OpToRel(<, Nat)
    BY <2>1 DEF OpToRel
  <2>3. ~(m < n)
    BY <1>2, <2>2, Zenon
  <2> QED
    BY <2>1, <2>3
<1> QED
  BY <1>3

LEMMA OldestIsReleased == Oldest \in Releases
<1> DEFINE S1 == {v[1] : v \in Releases}
<1>1. \A v \in Releases : v[1] \in Nat /\ v[2] \in Nat /\ v[3] \in Nat /\ v[4] \in {0, 1}
  BY GateAssumption
<1>2. S1 \in SUBSET Nat /\ S1 # {}
  BY <1>1, GateAssumption
<1>3. PICK n1 \in S1 : \A m \in S1 : n1 <= m
  BY <1>2, LeastOf
<1> DEFINE S2 == {v[2] : v \in {x \in Releases : x[1] = n1}}
<1>4. S2 \in SUBSET Nat /\ S2 # {}
  BY <1>1, <1>3
<1>5. PICK n2 \in S2 : \A m \in S2 : n2 <= m
  BY <1>4, LeastOf
<1> DEFINE S3 == {v[3] : v \in {x \in Releases : x[1] = n1 /\ x[2] = n2}}
<1>6. S3 \in SUBSET Nat /\ S3 # {}
  BY <1>1, <1>5
<1>7. PICK n3 \in S3 : \A m \in S3 : n3 <= m
  BY <1>6, LeastOf
<1> DEFINE S4 == {v[4] : v \in {x \in Releases : x[1] = n1 /\ x[2] = n2 /\ x[3] = n3}}
<1>8. S4 \in SUBSET Nat /\ S4 # {}
  BY <1>1, <1>7
<1>9. PICK n4 \in S4 : \A m \in S4 : n4 <= m
  BY <1>8, LeastOf
<1>10. PICK v \in Releases : v[1] = n1 /\ v[2] = n2 /\ v[3] = n3 /\ v[4] = n4
  BY <1>9
<1>11. ASSUME NEW w \in Releases PROVE ~IsBelow(w, v)
  <2>1. n1 <= w[1]
    BY <1>3
  <2>2. w[1] = n1 => n2 <= w[2]
    BY <1>5
  <2>3. w[1] = n1 /\ w[2] = n2 => n3 <= w[3]
    BY <1>7
  <2>4. w[1] = n1 /\ w[2] = n2 /\ w[3] = n3 => n4 <= w[4]
    BY <1>9
  <2> QED
    BY <1>1, <1>10, <2>1, <2>2, <2>3, <2>4 DEF IsBelow
<1> QED
  BY <1>11 DEF Oldest

LEMMA GateStarts ==
    ASSUME GateInit
    PROVE  GateIInv
<1>1. Fresh(Oldest) \in Manifest
  <2>1. (CHOOSE k \in DecorationKeys : TRUE) \in DecorationKeys
    BY GateAssumption
  <2> QED
    BY <2>1, OldestIsReleased, GateAssumption DEF Fresh, Manifest
<1>2. NoRepo \in [Packages -> Manifest]
  BY <1>1 DEF NoRepo
<1>3. \A p \in Packages : NoRepo[p].form = "none"
  BY DEF NoRepo, Fresh
<1>4. app \in Seq(Packages) /\ Len(app) = 0
  BY DEF GateInit
<1> QED
  BY <1>2, <1>3, <1>4 DEF GateInit, GateIInv, RevisionsOK, VerdictEarned, AppOK, NoVerdict

LEMMA ChangeKeeps ==
    ASSUME GateIInv, NEW p \in Packages, NEW m \in Manifest, Change(p, m),
           repo[p].form # "none" => m.form # "none"
    PROVE  GateIInv'
<1>1. RevisionsOK'
  BY DEF Change, GateIInv, RevisionsOK
<1>2. VerdictEarned' /\ AppOK'
  BY DEF Change, GateIInv, VerdictEarned, AppOK
<1> QED
  BY <1>1, <1>2 DEF GateIInv

LEMMA DevelopersKeep ==
    ASSUME GateIInv, NEW p \in Packages,
           \/ \E range \in Ranges, imports, exempt \in BOOLEAN : ChangePeer(p, range, imports, exempt)
           \/ \E v \in Releases, there \in BOOLEAN : ChangeDev(p, v, there)
           \/ \E k \in DecorationKeys, form \in Forms, documented \in BOOLEAN :
                 ChangePlugin(p, k, form, documented)
           \/ DropMetadata(p)
    PROVE  GateIInv'
<1>1. repo[p] \in Manifest
  BY DEF GateIInv, RevisionsOK
<1>2. CASE \E range \in Ranges, imports, exempt \in BOOLEAN : ChangePeer(p, range, imports, exempt)
  <2> PICK range \in Ranges, imports \in BOOLEAN, exempt \in BOOLEAN :
               ChangePeer(p, range, imports, exempt)
    BY <1>2
  <2> DEFINE m == [repo[p] EXCEPT !.range = range, !.imports = imports, !.exempt = exempt]
  <2>1. m \in Manifest /\ m.form = repo[p].form
    BY <1>1 DEF Manifest
  <2> QED
    BY <2>1, ChangeKeeps DEF ChangePeer
<1>3. CASE \E v \in Releases, there \in BOOLEAN : ChangeDev(p, v, there)
  <2> PICK v \in Releases, there \in BOOLEAN : ChangeDev(p, v, there)
    BY <1>3
  <2> DEFINE m == [repo[p] EXCEPT !.dev = v, !.installed = IF there THEN v ELSE NothingYet]
  <2>1. m \in Manifest /\ m.form = repo[p].form
    BY <1>1 DEF Manifest
  <2> QED
    BY <2>1, ChangeKeeps DEF ChangeDev
<1>4. CASE \E k \in DecorationKeys, form \in Forms, documented \in BOOLEAN :
               ChangePlugin(p, k, form, documented)
  <2> PICK k \in DecorationKeys, form \in Forms, documented \in BOOLEAN :
               ChangePlugin(p, k, form, documented)
    BY <1>4
  <2> DEFINE m == [repo[p] EXCEPT !.key = k, !.form = form, !.documented = documented]
  <2>1. m \in Manifest /\ m.form # "none"
    BY <1>1, GateAssumption DEF Manifest
  <2> QED
    BY <2>1, ChangeKeeps DEF ChangePlugin
<1>5. CASE DropMetadata(p)
  <2> DEFINE m == [repo[p] EXCEPT !.complete = FALSE]
  <2>1. m \in Manifest /\ m.form = repo[p].form
    BY <1>1 DEF Manifest
  <2> QED
    BY <1>5, <2>1, ChangeKeeps DEF DropMetadata
<1> QED
  BY <1>2, <1>3, <1>4, <1>5

LEMMA RunGateKeeps ==
    ASSUME GateIInv, RunGate
    PROVE  GateIInv'
<1>1. /\ verdict'.on = repo
      /\ verdict'.green =
            (/\ \A p \in Packages : ~ManifestViolated(repo[p]) /\ ~InstalledRefused(repo[p])
             /\ ~KeysViolated(repo) /\ ~SeamViolated(repo))
      /\ verdict'.unresolved = Cardinality({p \in Packages : repo[p].form = "call"})
      /\ UNCHANGED <<repo, released, app>>
  BY DEF RunGate
<1>2. RevisionsOK'
  BY <1>1 DEF GateIInv, RevisionsOK
<1>3. VerdictEarned'
  BY <1>1 DEF VerdictEarned
<1>4. AppOK'
  BY <1>1 DEF GateIInv, AppOK
<1> QED
  BY <1>2, <1>3, <1>4 DEF GateIInv

LEMMA RegisterKeeps ==
    ASSUME GateIInv, NEW p \in Packages, RegisterPlugin(p)
    PROVE  GateIInv'
<1>1. app' = Append(app, p) /\ released[p].form # "none" /\ UNCHANGED <<repo, verdict, released>>
      /\ \A i \in 1 .. Len(app) : app[i] # p
  BY DEF RegisterPlugin, Contains
<1>2. app \in Seq(Packages) /\ Len(app) \in Nat
  BY DEF GateIInv, AppOK
<1>3. /\ app' \in Seq(Packages) /\ Len(app') = Len(app) + 1 /\ app'[Len(app) + 1] = p
      /\ \A i \in 1 .. Len(app) : app'[i] = app[i]
  BY <1>1, <1>2, AppendProperties
<1>4. \A i \in 1 .. Len(app') : i \in 1 .. Len(app) \/ i = Len(app) + 1
  BY <1>2, <1>3
<1>5. AppOK'
  BY <1>1, <1>3, <1>4 DEF GateIInv, AppOK
<1> QED
  BY <1>1, <1>5 DEF GateIInv, RevisionsOK, VerdictEarned

LEMMA GateKeeps ==
    ASSUME GateIInv, [GateNext]_gateVars
    PROVE  GateIInv'
<1>1. CASE RunGate
  BY <1>1, RunGateKeeps
<1>2. CASE ReleasePackages
  <2>1. released' = repo /\ UNCHANGED <<repo, verdict, app>>
    BY <1>2 DEF ReleasePackages
  <2>2. AppOK'
    BY <2>1 DEF GateIInv, AppOK, RevisionsOK
  <2> QED
    BY <2>1, <2>2 DEF GateIInv, RevisionsOK, VerdictEarned
<1>3. CASE \E p \in Packages : RegisterPlugin(p)
  BY <1>3, RegisterKeeps
<1>4. CASE UNCHANGED gateVars
  BY <1>4 DEF gateVars, GateIInv, RevisionsOK, VerdictEarned, AppOK
<1> QED
  BY <1>1, <1>2, <1>3, <1>4, DevelopersKeep DEF GateNext

----------------------------------------------------------------------------
(* What the contract and the ceiling of a range come to.                   *)
LEMMA PeersFollow ==
    ASSUME GateIInv
    PROVE  PeersArePromises
<1> SUFFICES ASSUME verdict.green, NEW p \in Packages
             PROVE  LET m == verdict.on[p] IN
                    /\ m.installed = m.dev /\ Measured(m) => Satisfies(m.dev, m.range)
                    /\ Readable(m.range) =>
                          \A v \in Releases : Satisfies(v, m.range) =>
                              /\ ~IsBelow(v, m.dev)
                              /\ \A w \in Releases :
                                    v[1] = w[1] /\ v[2] < w[2] /\ w[4] = 1 => Satisfies(w, m.range)
  BY DEF PeersArePromises
<1> DEFINE m == verdict.on[p]
           f == m.range.floor
<1>1. ~ManifestViolated(m) /\ ~InstalledRefused(m)
  BY DEF GateIInv, VerdictEarned
<1>2. m.range \in Ranges /\ m.dev \in Releases
  BY DEF GateIInv, RevisionsOK, Manifest
<1>3. m.range.op \in {"^", "~", ">=", "other"} /\ f \in Version /\ Releases \subseteq Version
  BY <1>2, GateAssumption DEF Version
<1>4. \A v \in Version : v[1] \in Nat /\ v[2] \in Nat /\ v[3] \in Nat /\ v[4] \in {0, 1}
  BY DEF Version
<1> HIDE DEF m
<1>5. m.installed = m.dev /\ Measured(m) => Satisfies(m.dev, m.range)
  BY <1>1 DEF InstalledRefused
<1>6. ASSUME Readable(m.range), NEW v \in Releases, Satisfies(v, m.range)
      PROVE  ~IsBelow(v, m.dev)
  <2>1. ~IsBelow(f, m.dev)
    BY <1>1, <1>6 DEF ManifestViolated, ContractViolated
  <2>2. ~IsBelow(v, f)
    BY <1>6 DEF Satisfies, Readable
  <2> QED
    BY <1>2, <1>3, <2>1, <2>2, VersionsOrdered
<1>7. ASSUME Readable(m.range), NEW v \in Releases, Satisfies(v, m.range), NEW w \in Releases,
             v[1] = w[1], v[2] < w[2], w[4] = 1
      PROVE  Satisfies(w, m.range)
  <2>1. m.range.op = ">=" \/ (m.range.op = "^" /\ f[1] > 0)
    <3>1. ~CeilingIsBelowNextMajor(m.range)
      BY <1>1 DEF ManifestViolated
    <3>2. f[1] \in Nat
      BY <1>3, <1>4
    <3> QED
      BY <1>3, <1>7, <3>1, <3>2 DEF CeilingIsBelowNextMajor, Readable
  <2>2. ~IsBelow(v, f) /\ (m.range.op = "^" => v[1] = f[1])
    BY <1>7, <2>1 DEF Satisfies
  <2>3. ~IsBelow(w, v)
    BY <1>3, <1>4, <1>7 DEF IsBelow
  <2>4. ~IsBelow(w, f)
    BY <1>3, <2>2, <2>3, VersionsOrdered
  <2> QED
    BY <1>7, <2>1, <2>2, <2>4 DEF Satisfies
<1> QED
  BY <1>5, <1>6, <1>7 DEF m

LEMMA DecorationsFollow ==
    ASSUME GateIInv
    PROVE  DecorationsAreOwn
<1> SUFFICES ASSUME released = verdict.on, verdict.green, verdict.unresolved = 0,
                    NEW p \in ToSet(app)
             PROVE  Decoration(released[p].key) = p
  BY DEF DecorationsAreOwn
<1> DEFINE calls == {x \in Packages : verdict.on[x].form = "call"}
<1>1. calls = {}
  <2>1. IsFiniteSet(calls)
    BY GateAssumption, FS_Subset
  <2> QED
    BY <2>1, FS_EmptySet DEF GateIInv, VerdictEarned
<1>2. /\ app \in Seq(Packages) /\ DOMAIN app = 1 .. Len(app)
      /\ \A i, j \in 1 .. Len(app) : app[i] = app[j] => i = j
      /\ \A i \in 1 .. Len(app) : app[i] \in Packages /\ released[app[i]].form # "none"
  BY DEF GateIInv, AppOK
<1>3. \A i \in 1 .. Len(app) : app[i] \in Resolved(verdict.on)
  <2> SUFFICES ASSUME NEW i \in 1 .. Len(app) PROVE app[i] \in Resolved(verdict.on)
    OBVIOUS
  <2>1. app[i] \in Packages /\ verdict.on[app[i]].form # "none"
    BY <1>2
  <2>2. verdict.on[app[i]].form # "call"
    BY <1>1, <2>1
  <2>3. verdict.on[app[i]].form \in Forms \cup {"none"}
    BY <2>1 DEF GateIInv, RevisionsOK, Manifest
  <2> QED
    BY <2>1, <2>2, <2>3, GateAssumption DEF Resolved
<1>4. \A i, j \in 1 .. Len(app) : released[app[i]].key = released[app[j]].key => i = j
  BY <1>2, <1>3 DEF GateIInv, VerdictEarned, KeysViolated
<1>5. PICK i \in 1 .. Len(app) : app[i] = p
  BY <1>2, ContentFacts
<1> DEFINE k == released[p].key
           last == CHOOSE n \in DOMAIN app : Claims(n, k) /\ \A j \in DOMAIN app : Claims(j, k) => j <= n
<1>6. Claims(i, k) /\ \A j \in DOMAIN app : Claims(j, k) => j = i
  BY <1>2, <1>4, <1>5 DEF Claims
<1>7. last \in DOMAIN app /\ Claims(last, k)
  <2>1. Claims(i, k) /\ \A j \in DOMAIN app : Claims(j, k) => j <= i
    BY <1>2, <1>6
  <2> HIDE DEF k
  <2> QED
    BY <1>2, <2>1
<1>8. last = i
  BY <1>6, <1>7
<1> QED
  BY <1>5, <1>8 DEF Decoration

(* A release the gate let through keeps the promise of its peer ranges     *)
(* (validate-manifests.mjs), for any versions, and every plugin of it its  *)
(* own decoration, for any order of registration.                          *)
THEOREM ReleaseIsKept == GateSpec => []ReleaseKept
<1>1. ASSUME GateIInv PROVE GateTypeOK
  <2>1. ToSet(app) \subseteq Packages
    BY <1>1, ContentFacts DEF GateIInv, AppOK
  <2> QED
    BY <1>1, <2>1 DEF GateIInv, RevisionsOK, GateTypeOK, Manifest
<1>2. GateIInv => ReleaseKept
  BY <1>1, PeersFollow, DecorationsFollow DEF ReleaseKept
<1> QED
  BY <1>2, GateStarts, GateKeeps, PTL DEF GateSpec

LEMMA AppendedContent ==
    ASSUME NEW S, NEW s \in Seq(S), NEW e \in S
    PROVE  Append(s, e) \in Seq(S) /\ ToSet(Append(s, e)) = ToSet(s) \cup {e}
<1>1. <<e>> \in Seq(S) /\ ToSet(<<e>>) = {e}
  BY SmallContent
<1>2. Append(s, e) = s \o <<e>>
  BY AppendIsConcat
<1>3. s \o <<e>> \in Seq(S) /\ ToSet(s \o <<e>>) = ToSet(s) \cup ToSet(<<e>>)
  BY <1>1, JoinedContent, Zenon
<1> QED
  BY <1>1, <1>2, <1>3, Zenon

----------------------------------------------------------------------------
(* The documentation gate.  Its scans go through the page step by step; a  *)
(* set of positions that a scan cannot leave is all of them.               *)
LEMMA ThroughAll ==
    ASSUME NEW n \in Nat, NEW P, 0 \in P, \A i \in 1 .. n : i - 1 \in P => i \in P
    PROVE  \A i \in 0 .. n : i \in P
<1> DEFINE missing == {i \in 0 .. n : i \notin P}
<1> SUFFICES ASSUME missing # {} PROVE FALSE
  OBVIOUS
<1>1. missing \in SUBSET Nat
  OBVIOUS
<1>2. \E m \in missing : \A i \in missing : ~(<<i, m>> \in OpToRel(<, Nat))
  BY <1>1, NatLessThanWellFounded, WFMin
<1>3. PICK m \in missing : \A i \in missing : ~(<<i, m>> \in OpToRel(<, Nat))
  BY <1>2
<1>4. m \in 1 .. n /\ m - 1 \in 0 .. n /\ m \in Nat /\ m - 1 \in Nat
  <2>1. m \in 0 .. n /\ m # 0
    OBVIOUS
  <2> QED
    BY <2>1
<1>5. m - 1 \notin missing
  <2>1. <<m - 1, m>> \in OpToRel(<, Nat)
    BY <1>4 DEF OpToRel
  <2> QED
    BY <1>3, <2>1, Zenon
<1> QED
  BY <1>4, <1>5

(* A scan with a state in S has a result for each number of steps.         *)
Scanners(S, n) == [1 .. n -> [S -> S]]
ScanFound(S, start, n, step) ==
    \E f \in [0 .. n -> S] : f[0] = start /\ \A i \in 1 .. n : f[i] = step[i][f[i - 1]]

LEMMA ScansExist ==
    ASSUME NEW S, NEW start \in S, NEW n \in Nat, NEW step \in Scanners(S, n)
    PROVE  ScanFound(S, start, n, step)
<1> USE DEF Scanners, ScanFound
<1> DEFINE Runs(f, m) == f[0] = start /\ \A i \in 1 .. m : f[i] = step[i][f[i - 1]]
           P == {m \in 0 .. n : \E f \in [0 .. m -> S] : Runs(f, m)}
<1>1. 0 \in P
  <2> DEFINE f == [i \in 0 .. 0 |-> start]
  <2>1. f \in [0 .. 0 -> S] /\ f[0] = start /\ 1 .. 0 = {} /\ 0 \in 0 .. n
    OBVIOUS
  <2> QED
    BY <2>1
<1>2. ASSUME NEW m \in 1 .. n, m - 1 \in P PROVE m \in P
  <2>1. PICK f \in [0 .. m - 1 -> S] : Runs(f, m - 1)
    BY <1>2
  <2> DEFINE g == [i \in 0 .. m |-> IF i = m THEN step[m][f[m - 1]] ELSE f[i]]
  <2>2. m \in Nat /\ m - 1 \in 0 .. m - 1 /\ m \in 0 .. n /\ m # 0 /\ 0 \in 0 .. m
    OBVIOUS
  <2>3. step[m][f[m - 1]] \in S
    BY <2>2
  <2>4. \A i \in 0 .. m : i # m => i \in 0 .. m - 1
    BY <2>2
  <2>5. g \in [0 .. m -> S]
    BY <2>3, <2>4
  <2>6. g[0] = start
    BY <2>1, <2>2
  <2>7. ASSUME NEW i \in 1 .. m PROVE g[i] = step[i][g[i - 1]]
    <3>1. i \in 0 .. m /\ i - 1 \in 0 .. m /\ i - 1 # m
      BY <2>2
    <3>2. g[i - 1] = f[i - 1]
      BY <3>1
    <3>3. CASE i = m
      BY <3>1, <3>2, <3>3
    <3>4. CASE i # m
      <4>1. i \in 1 .. m - 1
        BY <2>2, <3>4
      <4> QED
        BY <2>1, <3>1, <3>2, <3>4, <4>1
    <3> QED
      BY <3>3, <3>4
  <2> HIDE DEF g
  <2> QED
    BY <2>2, <2>5, <2>6, <2>7
<1> HIDE DEF P
<1>3. \A i \in 0 .. n : i \in P
  BY <1>1, <1>2, ThroughAll, Zenon
<1>4. n \in 0 .. n
  OBVIOUS
<1> QED
  BY <1>3, <1>4 DEF P

(* splitFences, over a page.                                               *)
Blocks(page) == [lang : Openers \cap ToSet(page), above : ToSet(page) \cup {""},
                 body : Seq(ToSet(page)), closed : BOOLEAN]
Splits(page) == [fence : {NoFence} \cup Blocks(page), blocks : Seq(Blocks(page))]
NothingSplit == [fence |-> NoFence, blocks |-> <<>>]

LEMMA GreatestIsIn == ASSUME NEW n \in Nat, NEW S \in SUBSET (1 .. n), S # {} PROVE Max(S) \in S
<1> DEFINE P == {i \in 0 .. n : \A x \in S : x # n - i /\ x <= n - i}
<1>1. \E m \in S : \A x \in S : m >= x
  <2> SUFFICES ASSUME \A m \in S : \E x \in S : ~(m >= x) PROVE FALSE
    OBVIOUS
  <2>1. \A x \in S : x \in 1 .. n
    OBVIOUS
  <2>2. 0 \in P
    <3>1. n \notin S
      BY <2>1
    <3> QED
      BY <2>1, <3>1
  <2>3. ASSUME NEW i \in 1 .. n, i - 1 \in P PROVE i \in P
    <3>1. \A x \in S : x # n - (i - 1) /\ x <= n - (i - 1)
      BY <2>3
    <3>2. \A x \in S : x <= n - i
      BY <2>1, <3>1
    <3>3. n - i \notin S
      BY <2>1, <3>2
    <3> QED
      BY <3>2, <3>3
  <2> HIDE DEF P
  <2>4. n \in P
    BY <2>2, <2>3, ThroughAll
  <2>5. \A x \in S : x <= 0
    BY <2>4 DEF P
  <2>6. PICK x \in S : TRUE
    OBVIOUS
  <2>7. x \in 1 .. n /\ x <= 0
    BY <2>1, <2>5
  <2> QED
    BY <2>7
<1> QED
  BY <1>1 DEF Max

LEMMA AboveIsLine ==
    ASSUME NEW page \in Seq(Lines), NEW i \in 1 .. Len(page)
    PROVE  PrecedingNonBlank(page, i) \in ToSet(page) \cup {""}
<1> DEFINE text == {j \in 1 .. (i - 1) : page[j] # "blank"}
<1>1. CASE text = {}
  BY <1>1 DEF PrecedingNonBlank
<1>2. CASE text # {}
  <2>1. Len(page) \in Nat /\ i - 1 \in Nat /\ text \in SUBSET (1 .. i - 1)
    OBVIOUS
  <2>2. Max(text) \in text
    BY <1>2, <2>1, GreatestIsIn
  <2>3. Max(text) \in 1 .. Len(page)
    BY <2>1, <2>2
  <2> HIDE DEF text
  <2>4. page[Max(text)] \in ToSet(page)
    BY <2>3, ContentFacts
  <2> QED
    BY <1>2, <2>4 DEF PrecedingNonBlank, text
<1> QED
  BY <1>1, <1>2

LEMMA FencesDiffer ==
    /\ NoFence.lang = "none" /\ NoFence.body = <<>> /\ ~NoFence.closed
    /\ \A page : \A b \in Blocks(page) : b.lang # "none" /\ b # NoFence
<1>1. NoFence.lang = "none" /\ NoFence.body = <<>> /\ ~NoFence.closed
  BY DEF NoFence
<1>2. \A page : \A b \in Blocks(page) : b.lang # "none"
  BY DEF Blocks, Openers
<1> QED
  BY <1>1, <1>2

(* What one line does: what it leaves of the fences, and whether it is of  *)
(* an example, which is what the reference says of it.                     *)
Held(line, acc) ==
    \E b \in ToSet(acc.blocks) \cup {acc.fence} : b.lang = "open ts" /\ line \in ToSet(b.body)

LEMMA LineSplits ==
    ASSUME NEW page \in Seq(Lines), NEW i \in 1 .. Len(page), NEW acc \in Splits(page),
           ~acc.fence.closed
    PROVE  LET next == SplitLine(acc, i, page)
           IN /\ next \in Splits(page) /\ ~next.fence.closed
              /\ next.fence.lang = OpenAfter(acc.fence.lang, page[i])
              /\ \A line : Held(line, acc) => Held(line, next)
              /\ acc.fence.lang = "open ts" /\ page[i] # "fence" => Held(page[i], next)
              /\ (\A b \in ToSet(acc.blocks) : b.closed) => \A b \in ToSet(next.blocks) : b.closed
<1> DEFINE next == SplitLine(acc, i, page)
           line == page[i]
           opened == [lang |-> line, above |-> PrecedingNonBlank(page, i), body |-> <<>>, closed |-> FALSE]
<1>1. /\ acc.fence \in {NoFence} \cup Blocks(page) /\ acc.blocks \in Seq(Blocks(page))
      /\ acc = [fence |-> acc.fence, blocks |-> acc.blocks]
  BY DEF Splits
<1>2. line \in ToSet(page)
  BY ContentFacts
<1> HIDE DEF line
<1>3. CASE acc.fence = NoFence /\ line \in Openers
  <2>1. next = [acc EXCEPT !.fence = opened]
    BY <1>3 DEF SplitLine, line
  <2>2. PrecedingNonBlank(page, i) \in ToSet(page) \cup {""} /\ <<>> \in Seq(ToSet(page))
    BY AboveIsLine, SmallContent, Zenon
  <2>3. opened \in Blocks(page) /\ opened.lang = line /\ ~opened.closed
    BY <1>2, <1>3, <2>2 DEF Blocks
  <2> HIDE DEF opened
  <2>4. next.fence = opened /\ next.blocks = acc.blocks /\ next \in Splits(page)
    BY <1>1, <2>1, <2>3 DEF Splits
  <2>5. acc.fence.lang = "none"
    BY <1>3, FencesDiffer
  <2>6. \A l : Held(l, acc) => Held(l, next)
    <3>1. acc.fence.lang # "open ts"
      BY <2>5
    <3> QED
      BY <2>4, <3>1 DEF Held
  <2> QED
    BY <1>3, <2>3, <2>4, <2>5, <2>6 DEF OpenAfter, line
<1>4. CASE acc.fence # NoFence /\ line = "fence"
  <2> DEFINE b == [acc.fence EXCEPT !.closed = TRUE]
  <2>1. next = [fence |-> NoFence, blocks |-> Append(acc.blocks, b)]
    BY <1>4 DEF SplitLine, line
  <2>2. acc.fence \in Blocks(page)
    BY <1>1, <1>4
  <2>3. b \in Blocks(page) /\ b.lang = acc.fence.lang /\ b.body = acc.fence.body /\ b.closed
    BY <2>2 DEF Blocks
  <2> HIDE DEF b
  <2>4. Append(acc.blocks, b) \in Seq(Blocks(page))
        /\ ToSet(Append(acc.blocks, b)) = ToSet(acc.blocks) \cup {b}
    BY <1>1, <2>3, AppendedContent
  <2>5. next.fence = NoFence /\ next.blocks = Append(acc.blocks, b) /\ next \in Splits(page)
    BY <2>1, <2>4 DEF Splits
  <2>6. \A l : Held(l, acc) => Held(l, next)
    <3> SUFFICES ASSUME NEW l, NEW c \in ToSet(acc.blocks) \cup {acc.fence},
                        c.lang = "open ts", l \in ToSet(c.body)
                 PROVE  Held(l, next)
      BY DEF Held
    <3>1. CASE c \in ToSet(acc.blocks)
      BY <2>4, <2>5, <3>1 DEF Held
    <3>2. CASE c = acc.fence
      <4>1. b.lang = "open ts" /\ l \in ToSet(b.body)
        BY <2>3, <3>2
      <4>2. b \in ToSet(next.blocks)
        BY <2>4, <2>5
      <4> QED
        BY <4>1, <4>2 DEF Held
    <3> QED
      BY <3>1, <3>2
  <2>7. acc.fence.lang # "none"
    BY <2>2, FencesDiffer
  <2>8. OpenAfter(acc.fence.lang, page[i]) = "none"
    BY <1>4, <2>7 DEF OpenAfter, line
  <2> QED
    BY <1>4, <2>3, <2>4, <2>5, <2>6, <2>8, FencesDiffer DEF line
<1>5. CASE acc.fence # NoFence /\ line # "fence"
  <2> DEFINE more == Append(acc.fence.body, line)
             f == [acc.fence EXCEPT !.body = more]
  <2>1. next = [acc EXCEPT !.fence = f]
    BY <1>1, <1>5 DEF SplitLine, line
  <2>2. acc.fence \in Blocks(page) /\ acc.fence.body \in Seq(ToSet(page))
    BY <1>1, <1>5 DEF Blocks
  <2>3. more \in Seq(ToSet(page)) /\ ToSet(more) = ToSet(acc.fence.body) \cup {line}
    BY <1>2, <2>2, AppendedContent
  <2> HIDE DEF more
  <2>4. f \in Blocks(page) /\ f.lang = acc.fence.lang /\ f.body = more /\ f.closed = acc.fence.closed
    BY <2>2, <2>3 DEF Blocks
  <2> HIDE DEF f
  <2>5. next.fence = f /\ next.blocks = acc.blocks /\ next \in Splits(page)
    BY <1>1, <2>1, <2>4 DEF Splits
  <2>6. \A l : Held(l, acc) => Held(l, next)
    BY <2>3, <2>4, <2>5 DEF Held
  <2>7. acc.fence.lang # "none"
    BY <2>2, FencesDiffer
  <2>8. OpenAfter(acc.fence.lang, page[i]) = acc.fence.lang
    BY <1>5, <2>7 DEF OpenAfter, line
  <2>9. acc.fence.lang = "open ts" => Held(page[i], next)
    BY <2>3, <2>4, <2>5 DEF Held, line
  <2> QED
    BY <2>4, <2>5, <2>6, <2>8, <2>9
<1>6. CASE acc.fence = NoFence /\ line \notin Openers
  <2>1. next = acc
    BY <1>6 DEF SplitLine, line
  <2>2. acc.fence.lang = "none"
    BY <1>6, FencesDiffer
  <2> QED
    BY <1>6, <2>1, <2>2 DEF OpenAfter, line
<1> QED
  BY <1>3, <1>4, <1>5, <1>6

(* Three recursions: the scan, its reference, and the units.               *)
LEMMA ScanSteps ==
    ASSUME NEW page \in Seq(Lines)
    PROVE  /\ \A i \in 0 .. Len(page) : Scan(page)[i] \in Splits(page) /\ ~Scan(page)[i].fence.closed
           /\ Scan(page)[0] = NothingSplit
           /\ \A i \in 1 .. Len(page) : Scan(page)[i] = SplitLine(Scan(page)[i - 1], i, page)
<1> DEFINE n == Len(page)
           S == {acc \in Splits(page) : ~acc.fence.closed}
           step == [i \in 1 .. n |-> [acc \in S |-> SplitLine(acc, i, page)]]
           IsScan(f) == f = [i \in 0 .. n |->
                                IF i = 0 THEN NothingSplit ELSE SplitLine(f[i - 1], i, page)]
<1>1. n \in Nat
  OBVIOUS
<1>2. NothingSplit \in S
  BY FencesDiffer, SmallContent DEF NothingSplit, Splits
<1>3. \A i \in 1 .. n : \A acc \in S : SplitLine(acc, i, page) \in S
  BY LineSplits
<1> HIDE DEF S
<1>4. step \in [1 .. n -> [S -> S]]
  BY <1>3
<1>5. PICK f \in [0 .. n -> S] : f[0] = NothingSplit /\ \A i \in 1 .. n : f[i] = step[i][f[i - 1]]
  <2>1. step \in Scanners(S, n)
    BY <1>4 DEF Scanners
  <2> HIDE DEF step, n
  <2>2. ScanFound(S, NothingSplit, n, step)
    BY <1>1, <1>2, <2>1, ScansExist
  <2> QED
    BY <2>2 DEF ScanFound
<1>6. \A i \in 1 .. n : i - 1 \in 0 .. n /\ i \in 0 .. n /\ i # 0
  BY <1>1
<1>7. \A i \in 1 .. n : f[i] = SplitLine(f[i - 1], i, page)
  BY <1>5, <1>6
<1>8. IsScan(f)
  <2>1. \A i \in 0 .. n : i # 0 => i \in 1 .. n
    BY <1>1
  <2>2. \A i \in 0 .. n : f[i] = IF i = 0 THEN NothingSplit ELSE SplitLine(f[i - 1], i, page)
    BY <1>5, <1>7, <2>1
  <2> QED
    BY <2>2
<1>9. IsScan(Scan(page))
  BY <1>8 DEF Scan, NothingSplit
<1> DEFINE g == Scan(page)
<1> HIDE DEF g
<1>10. g[0] = NothingSplit /\ \A i \in 1 .. n : g[i] = SplitLine(g[i - 1], i, page)
  <2>1. \A i \in 0 .. n : g[i] = IF i = 0 THEN NothingSplit ELSE SplitLine(g[i - 1], i, page)
    BY <1>9 DEF g
  <2>2. 0 \in 0 .. n
    BY <1>1
  <2> QED
    BY <1>6, <2>1, <2>2
<1> DEFINE P == {i \in 0 .. n : g[i] \in S}
<1>11. 0 \in P
  BY <1>1, <1>2, <1>10
<1>12. \A i \in 1 .. n : i - 1 \in P => i \in P
  BY <1>3, <1>6, <1>10
<1> HIDE DEF P
<1>13. \A i \in 0 .. n : i \in P
  BY <1>1, <1>11, <1>12, ThroughAll, Zenon
<1> QED
  BY <1>10, <1>13 DEF P, S, g

LEMMA ReferenceSteps ==
    ASSUME NEW page \in Seq(Lines)
    PROVE  /\ FenceOpen(page)[0] = "none"
           /\ \A i \in 1 .. Len(page) :
                 FenceOpen(page)[i] = OpenAfter(FenceOpen(page)[i - 1], page[i])
<1> DEFINE n == Len(page)
           S == {"none"} \cup Openers
           step == [i \in 1 .. n |-> [open \in S |-> OpenAfter(open, page[i])]]
           IsOpening(f) == f = [i \in 0 .. n |-> IF i = 0 THEN "none" ELSE OpenAfter(f[i - 1], page[i])]
<1>1. n \in Nat
  OBVIOUS
<1>2. "none" \in S
  OBVIOUS
<1>3. \A i \in 1 .. n : \A open \in S : OpenAfter(open, page[i]) \in S
  BY DEF OpenAfter
<1> HIDE DEF S
<1>4. step \in [1 .. n -> [S -> S]]
  BY <1>3
<1>5. PICK f \in [0 .. n -> S] : f[0] = "none" /\ \A i \in 1 .. n : f[i] = step[i][f[i - 1]]
  <2>1. step \in Scanners(S, n)
    BY <1>4 DEF Scanners
  <2> HIDE DEF step, n
  <2>2. ScanFound(S, "none", n, step)
    BY <1>1, <1>2, <2>1, ScansExist
  <2> QED
    BY <2>2 DEF ScanFound
<1>6. \A i \in 1 .. n : i - 1 \in 0 .. n /\ i \in 0 .. n /\ i # 0
  BY <1>1
<1>7. \A i \in 1 .. n : f[i] = OpenAfter(f[i - 1], page[i])
  BY <1>5, <1>6
<1>8. IsOpening(f)
  <2>1. \A i \in 0 .. n : i # 0 => i \in 1 .. n
    BY <1>1
  <2>2. \A i \in 0 .. n : f[i] = IF i = 0 THEN "none" ELSE OpenAfter(f[i - 1], page[i])
    BY <1>5, <1>7, <2>1
  <2> QED
    BY <2>2
<1>9. IsOpening(FenceOpen(page))
  BY <1>8 DEF FenceOpen
<1> DEFINE g == FenceOpen(page)
<1> HIDE DEF g
<1>10. \A i \in 0 .. n : g[i] = IF i = 0 THEN "none" ELSE OpenAfter(g[i - 1], page[i])
  BY <1>9 DEF g
<1>11. 0 \in 0 .. n
  BY <1>1
<1> QED
  BY <1>6, <1>10, <1>11 DEF g

(* The scan agrees with the reference: every line of an example is in the  *)
(* body of a block that "open ts" opened.                                  *)
LEMMA ExamplesAreCut ==
    ASSUME NEW page \in Seq(Lines)
    PROVE  /\ SplitFences(page) \in Seq(Blocks(page))
           /\ \A i \in 1 .. Len(page) : InExample(page, i) =>
                 \E b \in ToSet(SplitFences(page)) : b.lang = "open ts" /\ page[i] \in ToSet(b.body)
           /\ (\A b \in ToSet(SplitFences(page)) : b.closed) => FenceOpen(page)[Len(page)] = "none"
<1> DEFINE n == Len(page)
           g == Scan(page)
           ref == FenceOpen(page)
           P == {i \in 0 .. n : /\ g[i].fence.lang = ref[i]
                                /\ \A b \in ToSet(g[i].blocks) : b.closed
                                /\ \A j \in 1 .. i : InExample(page, j) => Held(page[j], g[i])}
<1>1. /\ \A i \in 0 .. n : g[i] \in Splits(page) /\ ~g[i].fence.closed
      /\ g[0] = NothingSplit /\ \A i \in 1 .. n : g[i] = SplitLine(g[i - 1], i, page)
  BY ScanSteps
<1>2. ref[0] = "none" /\ \A i \in 1 .. n : ref[i] = OpenAfter(ref[i - 1], page[i])
  BY ReferenceSteps
<1>3. \A j : InExample(page, j) <=> ref[j - 1] = "open ts" /\ page[j] # "fence"
  BY DEF InExample
<1>4. n \in Nat
  OBVIOUS
<1> HIDE DEF g, ref
<1>5. 0 \in P
  <2>1. ToSet(NothingSplit.blocks) = {} /\ NothingSplit.fence.lang = "none" /\ 1 .. 0 = {}
    BY SmallContent, FencesDiffer DEF NothingSplit
  <2> QED
    BY <1>1, <1>2, <1>4, <2>1
<1>6. ASSUME NEW i \in 1 .. n, i - 1 \in P PROVE i \in P
  <2> DEFINE acc == g[i - 1]
             next == g[i]
  <2>1. i \in 0 .. n /\ i - 1 \in 0 .. n
    BY <1>4
  <2>2. /\ acc.fence.lang = ref[i - 1] /\ \A b \in ToSet(acc.blocks) : b.closed
        /\ \A j \in 1 .. i - 1 : InExample(page, j) => Held(page[j], acc)
    BY <1>6
  <2>3. acc \in Splits(page) /\ ~acc.fence.closed /\ next = SplitLine(acc, i, page)
    BY <1>1, <2>1
  <2> HIDE DEF acc, next
  <2>4. /\ next.fence.lang = OpenAfter(acc.fence.lang, page[i])
        /\ \A line : Held(line, acc) => Held(line, next)
        /\ acc.fence.lang = "open ts" /\ page[i] # "fence" => Held(page[i], next)
        /\ \A b \in ToSet(next.blocks) : b.closed
    BY <2>2, <2>3, LineSplits
  <2>5. next.fence.lang = ref[i]
    BY <1>2, <2>2, <2>4
  <2>6. ASSUME NEW j \in 1 .. i, InExample(page, j) PROVE Held(page[j], next)
    <3>1. CASE j = i
      BY <1>3, <2>2, <2>4, <2>6, <3>1
    <3>2. CASE j # i
      <4>1. j \in 1 .. i - 1
        BY <1>4, <3>2
      <4> QED
        BY <2>2, <2>4, <2>6, <4>1
    <3> QED
      BY <3>1, <3>2
  <2> QED
    BY <2>1, <2>4, <2>5, <2>6 DEF next
<1> DEFINE end == g[n]
           cut == SplitFences(page)
<1>7. n \in P
  <2> HIDE DEF P
  <2>1. \A i \in 0 .. n : i \in P
    BY <1>4, <1>5, <1>6, ThroughAll, Zenon
  <2>2. n \in 0 .. n
    BY <1>4
  <2> QED
    BY <2>1, <2>2
<1>8. /\ end.fence.lang = ref[n] /\ ~end.fence.closed /\ end \in Splits(page)
      /\ \A j \in 1 .. n : InExample(page, j) => Held(page[j], end)
  BY <1>1, <1>7
<1>9. cut = IF end.fence = NoFence THEN end.blocks ELSE Append(end.blocks, end.fence)
  BY DEF SplitFences, g
<1> HIDE DEF end, cut
<1>10. end.fence \in {NoFence} \cup Blocks(page) /\ end.blocks \in Seq(Blocks(page))
  BY <1>8 DEF Splits
<1>11. CASE end.fence = NoFence
  <2>1. cut = end.blocks /\ NoFence.lang = "none"
    BY <1>9, <1>11, FencesDiffer
  <2>2. \A line : Held(line, end) =>
           \E b \in ToSet(cut) : b.lang = "open ts" /\ line \in ToSet(b.body)
    BY <1>11, <2>1 DEF Held
  <2> QED
    BY <1>8, <1>10, <1>11, <2>1, <2>2 DEF cut, ref
<1>12. CASE end.fence # NoFence
  <2>1. cut = Append(end.blocks, end.fence) /\ end.fence \in Blocks(page)
    BY <1>9, <1>10, <1>12
  <2>2. cut \in Seq(Blocks(page)) /\ ToSet(cut) = ToSet(end.blocks) \cup {end.fence}
    BY <1>10, <2>1, AppendedContent
  <2>3. ~\A b \in ToSet(cut) : b.closed
    BY <1>8, <2>2
  <2>4. \A line : Held(line, end) =>
           \E b \in ToSet(cut) : b.lang = "open ts" /\ line \in ToSet(b.body)
    BY <2>2 DEF Held
  <2> QED
    BY <1>8, <2>2, <2>3, <2>4 DEF cut
<1> QED
  BY <1>11, <1>12

(* The units: each example is part of one, which is partial only if a line *)
(* of the page says so.                                                    *)
UnitsOf(page) == [body : Seq(ToSet(page)), partial : BOOLEAN]

JoinsWell(page, units, b) ==
    LET next == Joined(units, b)
    IN /\ next \in Seq(UnitsOf(page))
       /\ \A u \in ToSet(units) : \E w \in ToSet(next) : ToSet(u.body) \subseteq ToSet(w.body)
       /\ b.lang = "open ts" => \E w \in ToSet(next) : ToSet(b.body) \subseteq ToSet(w.body)
       /\ \A w \in ToSet(next) : w.partial =>
             "partial" \in ToSet(page) \/ \E u \in ToSet(units) : u.partial

LEMMA ExampleJoins ==
    ASSUME NEW page \in Seq(Lines), NEW units \in Seq(UnitsOf(page)), NEW b \in Blocks(page)
    PROVE  JoinsWell(page, units, b)
<1> SUFFICES ASSUME NEW next, next = Joined(units, b)
             PROVE  /\ next \in Seq(UnitsOf(page))
                    /\ \A u \in ToSet(units) :
                          \E w \in ToSet(next) : ToSet(u.body) \subseteq ToSet(w.body)
                    /\ b.lang = "open ts" =>
                          \E w \in ToSet(next) : ToSet(b.body) \subseteq ToSet(w.body)
                    /\ \A w \in ToSet(next) : w.partial =>
                          "partial" \in ToSet(page) \/ \E u \in ToSet(units) : u.partial
  BY DEF JoinsWell
<1> DEFINE n == Len(units)
<1>1. /\ b.body \in Seq(ToSet(page)) /\ b.above \in ToSet(page) \cup {""}
      /\ (b.above = "partial") \in BOOLEAN
  BY DEF Blocks
<1>2. CASE b.lang # "open ts"
  BY <1>2 DEF Joined
<1>3. CASE b.lang = "open ts" /\ b.above = "continues" /\ units # <<>>
  <2> DEFINE body == units[n].body \o b.body
             w == [units[n] EXCEPT !.body = body]
  <2>1. n \in 1 .. n /\ n \in Nat /\ units[n] \in UnitsOf(page)
    <3>1. n \in Nat
      OBVIOUS
    <3>2. n # 0
      BY <1>3, EmptySeq
    <3>3. n \in 1 .. n
      BY <3>1, <3>2
    <3> QED
      BY <3>1, <3>3
  <2>2. units[n].body \in Seq(ToSet(page))
    BY <2>1 DEF UnitsOf
  <2>3. body \in Seq(ToSet(page)) /\ ToSet(body) = ToSet(units[n].body) \cup ToSet(b.body)
    <3> DEFINE old == units[n].body
               more == b.body
               T == ToSet(page)
    <3>1. old \in Seq(T) /\ more \in Seq(T)
      BY <1>1, <2>2
    <3> HIDE DEF old, more, T, body, w, n
    <3>2. old \o more \in Seq(T) /\ ToSet(old \o more) = ToSet(old) \cup ToSet(more)
      BY <3>1, JoinedContent, Zenon
    <3> QED
      BY <3>2 DEF old, more, T, body
  <2>4. next = [units EXCEPT ![n].body = body]
    BY <1>3 DEF Joined
  <2> HIDE DEF body
  <2>5. w \in UnitsOf(page) /\ w.body = body /\ w.partial = units[n].partial
    BY <2>1, <2>3 DEF UnitsOf
  <2>6. next = [units EXCEPT ![n] = w]
    BY <2>1, <2>4
  <2> HIDE DEF w
  <2>7. next \in Seq(UnitsOf(page)) /\ Len(next) = n /\ next[n] = w
        /\ \A i \in 1 .. n : i # n => next[i] = units[i]
    BY <2>1, <2>5, <2>6
  <2> HIDE DEF n
  <2>8. /\ \A u : u \in ToSet(units) <=> \E i \in 1 .. n : units[i] = u
        /\ \A u : u \in ToSet(next) <=> \E i \in 1 .. n : next[i] = u
    BY <2>7, ContentFacts DEF n
  <2>9. w \in ToSet(next) /\ ToSet(b.body) \subseteq ToSet(w.body)
        /\ ToSet(units[n].body) \subseteq ToSet(w.body)
    BY <2>1, <2>3, <2>5, <2>7, <2>8
  <2>10. ASSUME NEW u \in ToSet(units)
         PROVE  \E x \in ToSet(next) : ToSet(u.body) \subseteq ToSet(x.body)
    <3>1. PICK i \in 1 .. n : units[i] = u
      BY <2>8
    <3>2. CASE i = n
      BY <2>9, <3>1, <3>2
    <3>3. CASE i # n
      <4>1. next[i] = u /\ u \in ToSet(next)
        BY <2>7, <2>8, <3>1, <3>3
      <4> QED
        BY <4>1
    <3> QED
      BY <3>2, <3>3
  <2>11. ASSUME NEW x \in ToSet(next), x.partial PROVE \E u \in ToSet(units) : u.partial
    <3>1. PICK i \in 1 .. n : next[i] = x
      BY <2>8
    <3>2. units[i] \in ToSet(units)
      BY <2>8
    <3>3. units[i].partial
      BY <2>5, <2>7, <2>11, <3>1
    <3> QED
      BY <3>2, <3>3
  <2> QED
    BY <2>7, <2>9, <2>10, <2>11
<1>4. CASE b.lang = "open ts" /\ ~(b.above = "continues" /\ units # <<>>)
  <2> DEFINE w == [body |-> b.body, partial |-> b.above = "partial"]
  <2>1. next = Append(units, w)
    BY <1>4 DEF Joined
  <2>2. w \in UnitsOf(page)
    BY <1>1 DEF UnitsOf
  <2>3. w.body = b.body /\ (w.partial => "partial" \in ToSet(page))
    BY <1>1
  <2> HIDE DEF w
  <2>4. Append(units, w) \in Seq(UnitsOf(page)) /\ ToSet(Append(units, w)) = ToSet(units) \cup {w}
    BY <2>2, AppendedContent
  <2> QED
    BY <2>1, <2>3, <2>4
<1> QED
  BY <1>2, <1>3, <1>4

LEMMA JoinSteps ==
    ASSUME NEW page \in Seq(Lines), NEW blocks \in Seq(Blocks(page))
    PROVE  /\ \A i \in 0 .. Len(blocks) : Join(blocks)[i] \in Seq(UnitsOf(page))
           /\ Join(blocks)[0] = <<>>
           /\ \A i \in 1 .. Len(blocks) : Join(blocks)[i] = Joined(Join(blocks)[i - 1], blocks[i])
<1> DEFINE n == Len(blocks)
           S == Seq(UnitsOf(page))
           step == [i \in 1 .. n |-> [units \in S |-> Joined(units, blocks[i])]]
           IsJoin(f) == f = [i \in 0 .. n |-> IF i = 0 THEN <<>> ELSE Joined(f[i - 1], blocks[i])]
<1>1. n \in Nat /\ \A i \in 1 .. n : blocks[i] \in Blocks(page)
  OBVIOUS
<1>2. <<>> \in S
  OBVIOUS
<1>3. \A i \in 1 .. n : \A units \in S : Joined(units, blocks[i]) \in S
  BY <1>1, ExampleJoins DEF JoinsWell
<1> HIDE DEF S
<1>4. step \in [1 .. n -> [S -> S]]
  BY <1>3
<1>5. PICK f \in [0 .. n -> S] : f[0] = <<>> /\ \A i \in 1 .. n : f[i] = step[i][f[i - 1]]
  <2>1. step \in Scanners(S, n)
    BY <1>4 DEF Scanners
  <2>2. n \in Nat
    BY <1>1
  <2> HIDE DEF step, n
  <2>3. ScanFound(S, <<>>, n, step)
    BY <1>2, <2>1, <2>2, ScansExist
  <2> QED
    BY <2>3 DEF ScanFound
<1>6. \A i \in 1 .. n : i - 1 \in 0 .. n /\ i \in 0 .. n /\ i # 0
  BY <1>1
<1>7. \A i \in 1 .. n : f[i] = Joined(f[i - 1], blocks[i])
  BY <1>5, <1>6
<1>8. IsJoin(f)
  <2>1. \A i \in 0 .. n : i # 0 => i \in 1 .. n
    BY <1>1
  <2>2. \A i \in 0 .. n : f[i] = IF i = 0 THEN <<>> ELSE Joined(f[i - 1], blocks[i])
    BY <1>5, <1>7, <2>1
  <2> QED
    BY <2>2
<1>9. IsJoin(Join(blocks))
  BY <1>8 DEF Join
<1> DEFINE g == Join(blocks)
<1> HIDE DEF g
<1>10. g[0] = <<>> /\ \A i \in 1 .. n : g[i] = Joined(g[i - 1], blocks[i])
  <2>1. \A i \in 0 .. n : g[i] = IF i = 0 THEN <<>> ELSE Joined(g[i - 1], blocks[i])
    BY <1>9 DEF g
  <2>2. 0 \in 0 .. n
    BY <1>1
  <2> QED
    BY <1>6, <2>1, <2>2
<1> DEFINE P == {i \in 0 .. n : g[i] \in S}
<1>11. 0 \in P
  BY <1>1, <1>2, <1>10
<1>12. \A i \in 1 .. n : i - 1 \in P => i \in P
  BY <1>3, <1>6, <1>10
<1> HIDE DEF P
<1>13. \A i \in 0 .. n : i \in P
  BY <1>1, <1>11, <1>12, ThroughAll, Zenon
<1> QED
  BY <1>10, <1>13 DEF P, S, g

LEMMA ExamplesAreCompiled ==
    ASSUME NEW page \in Seq(Lines), NEW blocks \in Seq(Blocks(page))
    PROVE  /\ \A b \in ToSet(blocks) : b.lang = "open ts" =>
                 \E u \in ToSet(Units(blocks)) : ToSet(b.body) \subseteq ToSet(u.body)
           /\ \A u \in ToSet(Units(blocks)) : u.partial => "partial" \in ToSet(page)
<1> DEFINE n == Len(blocks)
           g == Join(blocks)
           P == {i \in 0 .. n :
                    /\ \A j \in 1 .. i : blocks[j].lang = "open ts" =>
                          \E u \in ToSet(g[i]) : ToSet(blocks[j].body) \subseteq ToSet(u.body)
                    /\ \A u \in ToSet(g[i]) : u.partial => "partial" \in ToSet(page)}
<1>1. /\ \A i \in 0 .. n : g[i] \in Seq(UnitsOf(page))
      /\ g[0] = <<>> /\ \A i \in 1 .. n : g[i] = Joined(g[i - 1], blocks[i])
  BY JoinSteps
<1>2. n \in Nat /\ \A i \in 1 .. n : blocks[i] \in Blocks(page)
  OBVIOUS
<1> HIDE DEF g
<1>3. 0 \in P
  <2>1. ToSet(g[0]) = {} /\ 1 .. 0 = {} /\ 0 \in 0 .. n
    BY <1>1, <1>2, SmallContent
  <2> QED
    BY <2>1
<1>4. ASSUME NEW i \in 1 .. n, i - 1 \in P PROVE i \in P
  <2> DEFINE units == g[i - 1]
             next == g[i]
  <2>1. i \in 0 .. n /\ i - 1 \in 0 .. n /\ blocks[i] \in Blocks(page)
    BY <1>2
  <2>2. /\ \A j \in 1 .. i - 1 : blocks[j].lang = "open ts" =>
              \E u \in ToSet(units) : ToSet(blocks[j].body) \subseteq ToSet(u.body)
        /\ \A u \in ToSet(units) : u.partial => "partial" \in ToSet(page)
    BY <1>4
  <2>3. units \in Seq(UnitsOf(page)) /\ next = Joined(units, blocks[i])
    BY <1>1, <2>1
  <2> HIDE DEF units, next
  <2>4. /\ \A u \in ToSet(units) : \E w \in ToSet(next) : ToSet(u.body) \subseteq ToSet(w.body)
        /\ blocks[i].lang = "open ts" =>
              \E w \in ToSet(next) : ToSet(blocks[i].body) \subseteq ToSet(w.body)
        /\ \A w \in ToSet(next) : w.partial =>
              "partial" \in ToSet(page) \/ \E u \in ToSet(units) : u.partial
    <3>1. JoinsWell(page, units, blocks[i])
      BY <2>1, <2>3, ExampleJoins
    <3> QED
      BY <2>3, <3>1 DEF JoinsWell
  <2>5. ASSUME NEW j \in 1 .. i, blocks[j].lang = "open ts"
        PROVE  \E u \in ToSet(next) : ToSet(blocks[j].body) \subseteq ToSet(u.body)
    <3>1. CASE j = i
      BY <2>4, <2>5, <3>1
    <3>2. CASE j # i
      <4>1. j \in 1 .. i - 1
        BY <1>2, <3>2
      <4>2. PICK u \in ToSet(units) : ToSet(blocks[j].body) \subseteq ToSet(u.body)
        BY <2>2, <2>5, <4>1
      <4>3. PICK w \in ToSet(next) : ToSet(u.body) \subseteq ToSet(w.body)
        BY <2>4
      <4> QED
        BY <4>2, <4>3
    <3> QED
      BY <3>1, <3>2
  <2>6. \A u \in ToSet(next) : u.partial => "partial" \in ToSet(page)
    BY <2>2, <2>4
  <2> QED
    BY <2>1, <2>5, <2>6 DEF next
<1>5. n \in P
  <2> HIDE DEF P
  <2>1. \A i \in 0 .. n : i \in P
    BY <1>2, <1>3, <1>4, ThroughAll, Zenon
  <2>2. n \in 0 .. n
    BY <1>2
  <2> QED
    BY <2>1, <2>2
<1>6. Units(blocks) = g[n]
  BY DEF Units, g
<1>7. ASSUME NEW b \in ToSet(blocks), b.lang = "open ts"
      PROVE  \E u \in ToSet(Units(blocks)) : ToSet(b.body) \subseteq ToSet(u.body)
  <2>1. PICK j \in 1 .. n : blocks[j] = b
    BY ContentFacts
  <2> QED
    BY <1>5, <1>6, <1>7, <2>1
<1>8. \A u \in ToSet(Units(blocks)) : u.partial => "partial" \in ToSet(page)
  BY <1>5, <1>6
<1> QED
  BY <1>7, <1>8

(* The gate over a page that is being written: a verdict is about the page *)
(* it was given on, because every change takes it back.                    *)
DocIInv ==
    /\ document \in Seq(Lines) /\ exported \subseteq ApiNames /\ linked \in BOOLEAN
    /\ deferred \subseteq [name : ApiNames, sunset : 0..MaxDay] /\ day \in 0..MaxDay
    /\ gate \in {0, 1, 2, NotRun}
    /\ PassIsEarned /\ ExamplesCompile

LEMMA NamesAreThere ==
    ASSUME DocIInv, NamesExit = 0
    PROVE  /\ ToSet(document) \cap Imports # {}
           /\ linked => \A n \in ToSet(document) \cap Imports :
                 n \in exported \/ \E d \in deferred : d.name = n /\ d.sunset >= day
<1>1. DocumentedImports # {} /\ Drifted \subseteq Deferred
  BY DEF NamesExit
<1>2. ASSUME linked, NEW n \in ToSet(document) \cap Imports, n \notin exported
      PROVE  \E d \in deferred : d.name = n /\ d.sunset >= day
  <2>1. n \in Deferred
    BY <1>1, <1>2 DEF Drifted, DocumentedImports
  <2>2. PICK d \in deferred \ Expired : d.name = n
    BY <2>1 DEF Deferred
  <2>3. ~(d.sunset < day)
    BY <2>2 DEF Expired
  <2>4. d.sunset \in Int /\ day \in Int
    BY <2>2 DEF DocIInv
  <2>5. d.sunset >= day
    BY <2>3, <2>4
  <2> QED
    BY <2>2, <2>5
<1> QED
  BY <1>1, <1>2 DEF DocumentedImports

LEMMA ExamplesStand ==
    ASSUME DocIInv, ExamplesExit = 0
    PROVE  /\ "open ts" \in ToSet(document)
           /\ FenceOpen(document)[Len(document)] = "none"
           /\ \A i \in DOMAIN document : InExample(document, i) =>
                 /\ document[i] \notin {"no syntax"} \cup Openers \cup Markers
                 /\ "partial" \notin ToSet(document) =>
                       /\ document[i] # "wrong types"
                       /\ document[i] \in Imports => linked /\ document[i] \in exported
<1> DEFINE blocks == SplitFences(document)
           cut == ToSet(blocks)
           units == ToSet(Units(blocks))
<1>1. /\ document \in Seq(Lines) /\ DOMAIN document = 1 .. Len(document)
  BY DEF DocIInv
<1>2. /\ ExampleBlocks(document) # {} /\ ~Complains(document)
      /\ \A u \in units : ~UnitFails(u)
  BY DEF ExamplesExit
<1>3. blocks \in Seq(Blocks(document))
  BY <1>1, ExamplesAreCut
<1>4. cut \subseteq Blocks(document)
  BY <1>3, ContentFacts
<1>5. \A b \in cut : b.closed
  BY <1>2 DEF Complains
<1>6. "open ts" \in ToSet(document)
  <2>1. PICK b \in cut : b.lang = "open ts"
    BY <1>2 DEF ExampleBlocks
  <2>2. b \in Blocks(document)
    BY <1>4
  <2> QED
    BY <2>1, <2>2 DEF Blocks
<1>7. FenceOpen(document)[Len(document)] = "none"
  BY <1>1, <1>5, ExamplesAreCut
<1>8. ASSUME NEW i \in 1 .. Len(document), InExample(document, i)
      PROVE  /\ document[i] \notin {"no syntax"} \cup Openers \cup Markers
             /\ "partial" \notin ToSet(document) =>
                   /\ document[i] # "wrong types"
                   /\ document[i] \in Imports => linked /\ document[i] \in exported
  <2>1. PICK b \in cut : b.lang = "open ts" /\ document[i] \in ToSet(b.body)
    BY <1>1, <1>8, ExamplesAreCut
  <2>2. PICK u \in units : ToSet(b.body) \subseteq ToSet(u.body)
    BY <1>1, <1>3, <2>1, ExamplesAreCompiled
  <2>3. document[i] \in ToSet(u.body) /\ ~UnitFails(u)
    BY <1>2, <2>1, <2>2
  <2>4. document[i] \notin {"no syntax"} \cup Openers \cup Markers
    BY <2>3 DEF UnitFails
  <2>5. u.partial => "partial" \in ToSet(document)
    BY <1>1, <1>3, <2>2, ExamplesAreCompiled
  <2>6. ASSUME "partial" \notin ToSet(document)
        PROVE  document[i] # "wrong types" /\ (document[i] \in Imports => linked /\ document[i] \in exported)
    <3>1. ~u.partial
      BY <2>5, <2>6
    <3>2. document[i] # "wrong types"
      BY <2>3, <3>1 DEF UnitFails
    <3>3. ASSUME document[i] \in Imports PROVE linked /\ document[i] \in exported
      <4>1. document[i] \in ApiNames
        BY <3>3 DEF Imports
      <4>2. document[i] \notin (IF linked THEN ApiNames \ exported ELSE ApiNames)
        BY <2>3, <3>1, <3>3 DEF UnitFails
      <4> QED
        BY <4>1, <4>2
    <3> QED
      BY <3>2, <3>3
  <2> QED
    BY <2>4, <2>6
<1> QED
  BY <1>1, <1>6, <1>7, <1>8

LEMMA DocStarts == ASSUME DocInit PROVE DocIInv
<1>1. <<>> \in Seq(Lines)
  OBVIOUS
<1>2. 0 \in 0..MaxDay
  BY DocAssumption
<1> QED
  BY <1>1, <1>2 DEF DocInit, DocIInv, PassIsEarned, ExamplesCompile, Passed, NotRun

LEMMA DocKeeps == ASSUME DocIInv, [DocNext]_docVars PROVE DocIInv'
<1>1. /\ document \in Seq(Lines) /\ exported \subseteq ApiNames /\ linked \in BOOLEAN
      /\ deferred \subseteq [name : ApiNames, sunset : 0..MaxDay] /\ day \in 0..MaxDay
  BY DEF DocIInv
<1>2. ASSUME document' \in Seq(Lines), exported' \subseteq ApiNames, linked' \in BOOLEAN,
             deferred' \subseteq [name : ApiNames, sunset : 0..MaxDay], day' \in 0..MaxDay,
             gate' = NotRun
      PROVE  DocIInv'
  <2>1. ~Passed' /\ gate' \in {0, 1, 2, NotRun}
    BY <1>2 DEF Passed, NotRun
  <2>2. PassIsEarned' /\ ExamplesCompile'
    BY <2>1 DEF PassIsEarned, ExamplesCompile
  <2> QED
    BY <1>2, <2>1, <2>2 DEF DocIInv
<1>3. CASE RunDocGate
  <2>1. /\ UNCHANGED <<document, exported, linked, deferred, day>>
        /\ gate' = IF NamesExit # 0 THEN NamesExit ELSE ExamplesExit
    BY <1>3 DEF RunDocGate
  <2>2. gate' \in {0, 1, 2, NotRun}
    BY <2>1 DEF NamesExit, ExamplesExit
  <2>3. ASSUME gate' = 0 PROVE NamesExit = 0 /\ ExamplesExit = 0
    BY <2>1, <2>3
  <2>4. ASSUME Passed' PROVE NamesExit = 0 /\ ExamplesExit = 0
    BY <2>3, <2>4 DEF Passed
  <2>5. PassIsEarned'
    <3> SUFFICES ASSUME Passed' PROVE PassIsEarned'
      BY DEF PassIsEarned
    <3>1. /\ ToSet(document) \cap Imports # {} /\ "open ts" \in ToSet(document)
          /\ FenceOpen(document)[Len(document)] = "none"
          /\ linked => \A n \in ToSet(document) \cap Imports :
                n \in exported \/ \E d \in deferred : d.name = n /\ d.sunset >= day
      BY <2>4, NamesAreThere, ExamplesStand
    <3> QED
      BY <2>1, <3>1 DEF PassIsEarned
  <2>6. ExamplesCompile'
    <3> SUFFICES ASSUME Passed' PROVE ExamplesCompile'
      BY DEF ExamplesCompile
    <3>1. \A i \in DOMAIN document : InExample(document, i) =>
             /\ document[i] \notin {"no syntax"} \cup Openers \cup Markers
             /\ "partial" \notin ToSet(document) =>
                   /\ document[i] # "wrong types"
                   /\ document[i] \in Imports => linked /\ document[i] \in exported
      BY <2>4, ExamplesStand
    <3> QED
      BY <2>1, <3>1 DEF ExamplesCompile
  <2> QED
    BY <1>1, <2>1, <2>2, <2>5, <2>6 DEF DocIInv
<1>4. CASE Unlink
  BY <1>1, <1>2, <1>4 DEF Unlink
<1>5. CASE NextDay
  BY <1>1, <1>2, <1>5, DocAssumption DEF NextDay
<1>6. ASSUME NEW passage \in Passages, Write(passage) PROVE DocIInv'
  <2>1. document \o passage \in Seq(Lines)
    BY <1>1, DocAssumption, JoinedContent
  <2> QED
    BY <1>1, <1>2, <1>6, <2>1 DEF Write
<1>7. ASSUME NEW n \in ApiNames, RemoveName(n) PROVE DocIInv'
  BY <1>1, <1>2, <1>7 DEF RemoveName
<1>8. ASSUME NEW n \in ApiNames, NEW sunset \in 0..MaxDay, DeferName(n, sunset) PROVE DocIInv'
  BY <1>1, <1>2, <1>8 DEF DeferName
<1>9. CASE UNCHANGED docVars
  BY <1>9 DEF docVars, DocIInv, PassIsEarned, ExamplesCompile, Passed
<1> QED
  BY <1>3, <1>4, <1>5, <1>6, <1>7, <1>8, <1>9 DEF DocNext

(* A page the gate passes has an import and an example, leaves no fence    *)
(* open and names nothing that is neither exported nor deferred to a day   *)
(* still to come; no line of any of its examples breaks its syntax, nor,   *)
(* unless the page says partial, its types or its imports: for any page,   *)
(* of any length, written in any passages while names and days go by.      *)
THEOREM DocsAreKept == DocSpec => []DocsKept
<1>1. DocInit => DocIInv
  BY DocStarts
<1>2. DocIInv /\ [DocNext]_docVars => DocIInv'
  BY DocKeeps
<1>3. DocIInv => DocsKept
  <2> SUFFICES ASSUME DocIInv PROVE DocsKept
    OBVIOUS
  <2>1. ToSet(document) \subseteq Lines
    BY ContentFacts DEF DocIInv
  <2> QED
    BY <2>1 DEF DocIInv, DocsKept, DocTypeOK
<1> QED
  BY <1>1, <1>2, <1>3, PTL DEF DocSpec
=============================================================================
