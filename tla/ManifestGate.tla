------------------------------ MODULE ManifestGate ------------------------------
(***************************************************************************)
(* The manifest gate (scripts/validate-manifests.mjs) and what it guards:  *)
(* the peer range a package publishes, and the key its plugin decorates    *)
(* the request with.  Developers change manifests and sources, the gate    *)
(* runs, a green revision is released, and an application registers the    *)
(* released plugins in some order: the framework (external) keeps the last *)
(* one of two that claim one key, and npm (external) installs any version  *)
(* the range admits.                                                       *)
(***************************************************************************)
EXTENDS Naturals, Sequences, SequencesExt

CONSTANTS
    Packages,        \* the publishable packages
    Releases,        \* versions of the peer: <<major, minor, patch, pre>>, pre 0 before a release
    Ranges,          \* peer ranges: [op, floor], op "^", "~", ">=" or "other"
    DecorationKeys,  \* decoration keys
    Forms,           \* what stands at decorateRequest: "exported", "local", "literal", "call"
    MaxCommits       \* bound on changes of the repository

VARIABLES
    repo,      \* package -> [range, dev, installed, imports, exempt, key, form, documented, complete]
    verdict,   \* the last run of the gate: [on, green, compared, unresolved, unmeasured]
    released,  \* the revision published last
    app,       \* the plugins the application registered, in order
    commits    \* number of changes made

gateVars == <<repo, verdict, released, app, commits>>

(* isBelow: by parts, then a prerelease below its own release.             *)
IsBelow(a, b) ==
    \/ a[1] < b[1]
    \/ a[1] = b[1] /\ a[2] < b[2]
    \/ a[1] = b[1] /\ a[2] = b[2] /\ a[3] < b[3]
    \/ a[1] = b[1] /\ a[2] = b[2] /\ a[3] = b[3] /\ a[4] < b[4]

NothingYet == <<0, 0, 0, 0>>  \* the peer is not installed here
Fresh(v) == [range |-> [op |-> ">=", floor |-> v], dev |-> v, installed |-> v, imports |-> TRUE,
             exempt |-> FALSE, key |-> CHOOSE k \in DecorationKeys : TRUE, form |-> "none", documented |-> TRUE,
             complete |-> TRUE]
Oldest == CHOOSE v \in Releases : \A w \in Releases : ~IsBelow(w, v)

ASSUME GateAssumption ==
    /\ MaxCommits \in Nat /\ IsFiniteSet(Packages) /\ DecorationKeys # {}
    /\ Releases \subseteq Nat \X Nat \X Nat \X {0, 1} /\ Releases # {}
    /\ Ranges \subseteq [op : {"^", "~", ">=", "other"}, floor : Nat \X Nat \X Nat \X {0, 1}]
    /\ [op |-> ">=", floor |-> Oldest] \in Ranges
    /\ Forms \subseteq {"exported", "local", "literal", "call"}

NoRepo == [p \in Packages |-> Fresh(Oldest)]
NoVerdict == [on |-> NoRepo, run |-> FALSE, green |-> FALSE, compared |-> 0, unresolved |-> 0,
              unmeasured |-> 0]

GateTypeOK ==
    /\ \A p \in Packages : repo[p].range \in Ranges /\ repo[p].dev \in Releases
    /\ verdict.green \in BOOLEAN
    /\ \A p \in Packages : repo[p].form \in Forms \cup {"none"}
    /\ ToSet(app) \subseteq Packages

GateInit ==
    /\ repo = NoRepo
    /\ verdict = NoVerdict
    /\ released = NoRepo
    /\ app = <<>>
    /\ commits = 0

----------------------------------------------------------------------------
(* rangeFloor: what a range starts at, when the gate can read it.          *)
Readable(range) == range.op # "other"

(* A caret on 0.x, and a tilde, hold the minor: a ceiling nobody typed.    *)
MutCeilingIsBelowNextMajor(range) == range.op = "~"
CeilingIsBelowNextMajor(range) == range.op = "~" \/ (range.op = "^" /\ range.floor[1] = 0)

(* semver's satisfies: the versions a range admits.                        *)
Satisfies(v, range) ==
    LET f == range.floor
        same(n) == \A i \in 1..n : v[i] = f[i]
    IN CASE range.op = "other" -> FALSE
         [] OTHER ->
            /\ ~IsBelow(v, f)
            /\ v[4] = 0 => f[4] = 0 /\ same(3)
            /\ range.op = "^" => IF f[1] > 0 THEN same(1) ELSE IF f[2] > 0 THEN same(2) ELSE same(3)
            /\ range.op = "~" => same(2)

(* checkFrameworkContract: every peer is imported, or exempted and not     *)
(* imported; the range starts no lower than what is compiled here.         *)
ContractViolated(m) ==
    \/ m.imports = m.exempt
    \/ Readable(m.range) /\ IsBelow(m.range.floor, m.dev)

(* checkPeerRangesAgainstInstalled: measured where the peer is on disk.    *)
Measured(m) == m.installed # NothingYet /\ Readable(m.range)
InstalledRefused(m) == Measured(m) /\ ~Satisfies(m.installed, m.range)

(* check: repository, provenance and local paths, abstracted to one flag.  *)
ManifestViolated(m) == ~m.complete \/ CeilingIsBelowNextMajor(m.range) \/ ContractViolated(m)

(* decorationKeys: a call or a property access is reported as unresolved.  *)
Resolved(r) == {p \in Packages : r[p].form \in {"exported", "local", "literal"}}
KeysViolated(r) ==
    \/ \E p \in Resolved(r) : r[p].form \in {"local", "literal"}
    \/ \E p, q \in Resolved(r) : p # q /\ r[p].key = r[q].key

(* checkSeamDocumentation: a plugin's README shows the call of its factory.*)
SeamViolated(r) == \E p \in Packages : r[p].form # "none" /\ ~r[p].documented

RunGate ==
    /\ verdict' = [on |-> repo, run |-> TRUE,
          green |-> /\ \A p \in Packages : ~ManifestViolated(repo[p]) /\ ~InstalledRefused(repo[p])
                    /\ ~KeysViolated(repo) /\ ~SeamViolated(repo),
          compared |-> Cardinality({repo[p].key : p \in Resolved(repo)}),
          unresolved |-> Cardinality({p \in Packages : repo[p].form = "call"}),
          unmeasured |-> Cardinality({p \in Packages : ~Measured(repo[p])})]
    /\ verdict' # verdict
    /\ UNCHANGED <<repo, released, app, commits>>

----------------------------------------------------------------------------
(* A developer changes one thing of one package.                           *)
Change(p, m) ==
    /\ commits < MaxCommits /\ m # repo[p] /\ app = <<>>
    /\ repo' = [repo EXCEPT ![p] = m]
    /\ commits' = commits + 1
    /\ UNCHANGED <<verdict, released, app>>

ChangePeer(p, range, imports, exempt) ==
    Change(p, [repo[p] EXCEPT !.range = range, !.imports = imports, !.exempt = exempt])
ChangeDev(p, v, there) ==
    Change(p, [repo[p] EXCEPT !.dev = v, !.installed = IF there THEN v ELSE NothingYet])
ChangePlugin(p, k, form, documented) ==
    Change(p, [repo[p] EXCEPT !.key = k, !.form = form, !.documented = documented])
DropMetadata(p) == Change(p, [repo[p] EXCEPT !.complete = FALSE])

(* The release publishes what the last green run examined.                 *)
ReleasePackages ==
    /\ verdict.green /\ verdict.on = repo /\ released # repo
    /\ released' = repo
    /\ UNCHANGED <<repo, verdict, app, commits>>

(* An application lists the released plugins in its config, in some order. *)
RegisterPlugin(p) ==
    /\ released # NoRepo /\ released[p].form # "none" /\ ~Contains(app, p)
    /\ app' = Append(app, p)
    /\ UNCHANGED <<repo, verdict, released, commits>>

(* ctx[key] = value, in the order of registration: the last one stays.     *)
Claims(i, k) == released[app[i]].key = k
Decoration(k) ==
    app[CHOOSE i \in DOMAIN app : Claims(i, k) /\ \A j \in DOMAIN app : Claims(j, k) => j <= i]

GateNext ==
    \/ RunGate \/ ReleasePackages
    \/ \E p \in Packages :
          \/ \E range \in Ranges, imports, exempt \in BOOLEAN : ChangePeer(p, range, imports, exempt)
          \/ \E v \in Releases, there \in BOOLEAN : ChangeDev(p, v, there)
          \/ \E k \in DecorationKeys, form \in Forms, documented \in BOOLEAN : ChangePlugin(p, k, form, documented)
          \/ DropMetadata(p)
          \/ RegisterPlugin(p)

GateSpec == GateInit /\ [][GateNext]_gateVars

----------------------------------------------------------------------------
(* A released package can be installed with what it was compiled against,  *)
(* with nothing older, and with the next minor of the framework: its range *)
(* says so wherever the gate could read and measure it.                    *)
PeersArePromises ==
    verdict.green => \A p \in Packages :
        LET m == verdict.on[p] IN
        /\ m.installed = m.dev /\ Measured(m) => Satisfies(m.dev, m.range)
        /\ Readable(m.range) =>
              \A v \in Releases : Satisfies(v, m.range) =>
                  /\ ~IsBelow(v, m.dev)
                  /\ \A w \in Releases : v[1] = w[1] /\ v[2] < w[2] /\ w[4] = 1 => Satisfies(w, m.range)

(* Each registered plugin of a release reads its own decoration, in every  *)
(* order of registration, unless the run said it left a key unresolved.    *)
DecorationsAreOwn ==
    (released = verdict.on /\ verdict.green /\ verdict.unresolved = 0) =>
        \A p \in ToSet(app) : Decoration(released[p].key) = p

(* What the manifest gate promises a release, part by part.                *)
ReleaseKept == GateTypeOK /\ PeersArePromises /\ DecorationsAreOwn
=============================================================================
