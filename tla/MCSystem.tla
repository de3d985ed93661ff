-------------------------------- MODULE MCSystem --------------------------------
(* The parts of the plugins that keep their state apart from each other,   *)
(* every one on a small instance: `part` says which of them runs, and      *)
(* never changes.  Invocations, clicks and callbacks are p1 and p2; tokens,*)
(* flows and packages a and b: one group of permutations is the symmetry   *)
(* of every part.                                                          *)
EXTENDS RealtimeClient, CopilotBudget, CopilotDispatch, CopilotClient, MagicLink,
        OAuthSignIn, VoiceRecorder, SpeechPlayback, ActionForm, DatabaseCli,
        ManifestGate, DocGate, TLC

CONSTANTS p1, p2, q, a, b, m1, m2, Parts

VARIABLE part

Symmetry == Permutations({p1, p2}) \cup Permutations({a, b})

MCPatches == {[key |-> "x", value |-> v] : v \in {"1", "2", "bad"}}

(* Budget: none; limits of one kind over the other; a cap per request.     *)
MCWindows == {"1d", "30d"}
MCLimits(daily, monthly) ==
    [w \in MCWindows |-> IF w = "1d" THEN daily ELSE monthly]
MCBudgets ==
    {[perRoom |-> FALSE, cap |-> None, sugar |-> NoLimits, explicit |-> NoLimits],
     [perRoom |-> TRUE, cap |-> None, sugar |-> MCLimits(5, 9), explicit |-> MCLimits(4, None)],
     [perRoom |-> TRUE, cap |-> 1, sugar |-> MCLimits(5, None), explicit |-> NoLimits]}
MCCosts == {-1, 3}

MCDefinition == [id |-> "valid", room |-> "named", agent |-> "with model",
                 identity |-> "named", triggers |-> {"broadcast"}]
MCDefinitions ==
    {MCDefinition, [MCDefinition EXCEPT !.id = "invalid"],
     [MCDefinition EXCEPT !.triggers = {"broadcast", "idle without time"}]}

MCSignIn(query, parsed, body, field) ==
    [query |-> query, parsed |-> parsed, body |-> body, field |-> field]
MCSignIns ==
    {MCSignIn(m1, FALSE, "none", NoEmail), MCSignIn(NoEmail, TRUE, "none", m2),
     MCSignIn(NoEmail, FALSE, "json", m2), MCSignIn(NoEmail, FALSE, "oversized", m2),
     MCSignIn(m1, TRUE, "form", m2), MCSignIn(NoEmail, FALSE, "form", Malformed)}

MCEmail(primary, verified) == [primary |-> primary, verified |-> verified]
MCEmailLists ==
    {<<>>, <<MCEmail(TRUE, FALSE)>>, <<MCEmail(TRUE, FALSE), MCEmail(FALSE, TRUE)>>}

MCSpeech ==
    {[text |-> "fits", voice |-> "known", speed |-> "default"],
     [text |-> "too long", voice |-> "known", speed |-> "default"],
     [text |-> "fits", voice |-> "unknown", speed |-> "default"]}

(* Form: two values of each field; a flat and a nested answer.             *)
MCTags == {<<>>, <<"t", "u">>}
MCFiles == {<<>>, <<"f">>}
MCField(key, n) == [key |-> key, messages |-> n]
MCAnswers ==
    {[shape |-> "ok", fields |-> {}], [shape |-> "other", fields |-> {}],
     [shape |-> "flat", fields |-> {MCField(<<"name">>, 2), MCField(<<"">>, 1)}],
     [shape |-> "envelope", fields |-> {MCField(<<"home", "city">>, 1),
                                        MCField(<<"tags">>, 0), MCField(<<"missing">>, 1)}]}

(* Database: three URLs, a script that is missing, empty or there.         *)
MCOptions ==
    {[driver |-> d, url |-> u, seed |-> s, reset |-> s] :
        d \in {"unset", "postgres"}, u \in {"unset", "u1", "u2"}, s \in {"unset", "", "s"}}

MCReleases == {<<0, 1, 0, 1>>, <<0, 2, 0, 0>>, <<0, 2, 0, 1>>, <<0, 3, 0, 1>>}
MCRanges ==
    [op : {"^", "~", ">=", "other"}, floor : {<<0, 1, 0, 1>>, <<0, 2, 0, 0>>, <<0, 2, 0, 1>>}]

(* Pages of up to three of these.                                          *)
MCPassages ==
    {<<"A">>, <<"wrong types">>, <<"fence">>, <<"partial">>, <<"partial", "blank">>, <<"typo">>,
     <<"open ts", "A">>, <<"open ts", "wrong types">>, <<"open ts", "no syntax">>,
     <<"open ts", "fence">>, <<"open ts", "A", "fence">>, <<"open ts", "wrong types", "fence">>,
     <<"continues", "open ts", "wrong types", "fence">>, <<"open ts", "open ts", "fence">>}

----------------------------------------------------------------------------
InClient == part = "client" /\ ClientNext
InBudget == part = "budget" /\ BudgetNext
InDispatch == part = "dispatch" /\ DispatchNext
InSurface == part = "surface" /\ SurfaceNext
InMagic == part = "magic" /\ MagicNext
InOAuth == part = "oauth" /\ OAuthNext
InVoice == part = "voice" /\ VoiceNext
InSpeech == part = "speech" /\ SpeechNext
InForm == part = "form" /\ FormNext
InCli == part = "cli" /\ CliNext
InManifests == part = "manifests" /\ GateNext
InDocs == part = "docs" /\ DocNext

(* What the other parts keep while one of them moves.                      *)
Still(name, state) == part = name \/ (part # name /\ UNCHANGED state)
Kept ==
    /\ UNCHANGED part
    /\ Still("client", clientVars)
    /\ Still("budget", budgetVars)
    /\ Still("dispatch", dispatchVars)
    /\ Still("surface", surfaceVars)
    /\ Still("magic", magicVars)
    /\ Still("oauth", oauthVars)
    /\ Still("voice", voiceVars)
    /\ Still("speech", speechVars)
    /\ Still("form", formVars)
    /\ Still("cli", cliVars)
    /\ Still("manifests", gateVars)
    /\ Still("docs", docVars)

SystemInit ==
    /\ part \in Parts
    /\ ClientInit /\ BudgetInit /\ DispatchInit /\ SurfaceInit
    /\ MagicInit /\ OAuthInit /\ VoiceInit /\ SpeechInit /\ FormInit
    /\ CliInit /\ GateInit /\ DocInit

SystemNext ==
    \/ InClient /\ Kept
    \/ InBudget /\ Kept
    \/ InDispatch /\ Kept
    \/ InSurface /\ Kept
    \/ InMagic /\ Kept
    \/ InOAuth /\ Kept
    \/ InVoice /\ Kept
    \/ InSpeech /\ Kept
    \/ InForm /\ Kept
    \/ InCli /\ Kept
    \/ InManifests /\ Kept
    \/ InDocs /\ Kept

SystemSpec ==
    SystemInit /\ [][SystemNext]_<<part, clientVars, budgetVars,
        dispatchVars, surfaceVars, magicVars, oauthVars, voiceVars,
        speechVars, formVars, cliVars, gateVars, docVars>>
=============================================================================
