----------------------------- MODULE OAuthSignIn -----------------------------
(***************************************************************************)
(* Sign-in through Google (auth-google) or GitHub (auth-github): the       *)
(* authorization URL, and handleCallback with its chain of requests.  A    *)
(* flow is one transaction { state, pkceVerifier }; the browser holds one  *)
(* transaction cookie, so a second tab replaces the transaction of the     *)
(* first, and a callback page that is reloaded arrives again with the same *)
(* code.  The identity provider, the discovery document and the cookie of  *)
(* the SDK are external.                                                   *)
(***************************************************************************)
EXTENDS Naturals, Sequences

CONSTANTS
    Flows,       \* transactions one browser starts
    Callbacks,   \* requests to the callback route
    Accounts,    \* accounts at the identity provider
    NoAccount,
    NoFlow,
    EmailLists   \* answers of /user/emails: sequences of [primary, verified]

ASSUME OAuthAssumption == NoFlow \notin Flows /\ NoAccount \notin Accounts

VARIABLES
    idp,         \* which provider is wired, with which scopes and base URL
    cookie,      \* the transaction the browser carries
    flow,        \* the transactions: [step, account, pkce, spent]
    callback     \* [flow, tx, step, account, email, sentTo, codes]

oauthVars == <<idp, cookie, flow, callback>>

NoCallback == [flow |-> NoFlow, tx |-> NoFlow, step |-> "idle", account |-> NoAccount,
               email |-> "unknown", sentTo |-> "nowhere"]

OAuthTypeOK ==
    /\ idp.name \in {"none", "google", "github"}
    /\ cookie \in Flows \cup {NoFlow}
    /\ \A f \in Flows : /\ flow[f].step \in {"idle", "rejected", "sent", "approved", "denied"}
                        /\ flow[f].account \in Accounts \cup {NoAccount}
    /\ \A c \in Callbacks :
          /\ callback[c].step \in {"idle", "discovering", "exchanging", "profile", "emails",
                                   "done", "failed"}
          /\ callback[c].email \in {"unknown", "public", "verified", "unverified", "none"}

OAuthInit ==
    /\ idp = [name |-> "none", base |-> "https", wantsEmail |-> FALSE]
    /\ cookie = NoFlow
    /\ flow = [f \in Flows |-> [step |-> "idle", account |-> NoAccount,
                                pkce |-> FALSE, spent |-> FALSE]]
    /\ callback = [c \in Callbacks |-> NoCallback]

----------------------------------------------------------------------------
(* assertSafeOidcUrl: https, or http to a loopback host.                   *)
Urls == {"https", "loopback", "plain", "missing"}
SafeUrl(url) == url \in {"https", "loopback"}

WireIdp(name, base, wantsEmail) ==
    /\ idp.name = "none"
    /\ idp' = [name |-> name, base |-> base, wantsEmail |-> wantsEmail]
    /\ UNCHANGED <<cookie, flow, callback>>

(* google().createAuthorizationURL: PKCE is mandatory, the base and the    *)
(* discovered endpoint must be safe.                                       *)
GoogleStarts(pkce, endpoint) == pkce /\ SafeUrl(idp.base) /\ SafeUrl(endpoint)

(* github().createAuthorizationURL: no discovery, PKCE when there is a     *)
(* verifier.                                                               *)
GitHubStarts(pkce, endpoint) == endpoint = "https"

Starts(pkce, endpoint) ==
    IF idp.name = "google" THEN GoogleStarts(pkce, endpoint) ELSE GitHubStarts(pkce, endpoint)

StartFlow(f, pkce, endpoint) ==
    /\ idp.name # "none" /\ flow[f].step = "idle"
    /\ idp.name = "github" => endpoint = "https"
    /\ IF Starts(pkce, endpoint)
       THEN /\ flow' = [flow EXCEPT ![f].step = "sent", ![f].pkce = pkce]
            /\ cookie' = f
       ELSE /\ flow' = [flow EXCEPT ![f].step = "rejected"]
            /\ UNCHANGED cookie
    /\ UNCHANGED <<idp, callback>>

(* The account holder approves or denies (external).                       *)
Consent(f, a) ==
    /\ flow[f].step = "sent"
    /\ flow' = [flow EXCEPT ![f].step = IF a = NoAccount THEN "denied" ELSE "approved",
                            ![f].account = a]
    /\ UNCHANGED <<idp, cookie, callback>>

----------------------------------------------------------------------------
(* handleCallback: a missing code (the holder denied), a state that is not *)
(* that of the transaction, and at Google a transaction without a          *)
(* verifier, are refused before any request leaves.                        *)
MutStateMatches(f, tx) == tx # NoFlow
StateMatches(f, tx) == f = tx

AcceptsCallback(f, tx) ==
    /\ flow[f].step = "approved"
    /\ StateMatches(f, tx)
    /\ idp.name = "google" => flow[tx].pkce

Arrive(c, f) ==
    /\ callback[c].step = "idle" /\ flow[f].step \in {"approved", "denied"}
    /\ callback' = [callback EXCEPT ![c] = [NoCallback EXCEPT
          !.flow = f, !.tx = cookie,
          !.step = IF ~AcceptsCallback(f, cookie) THEN "failed"
                   ELSE IF idp.name = "google" THEN "discovering" ELSE "exchanging"]]
    /\ UNCHANGED <<idp, cookie, flow>>

(* Google's endpoints are discovered again; the token endpoint is checked  *)
(* before the secret goes to it.                                           *)
Discover(c, endpoint) ==
    /\ callback[c].step = "discovering"
    /\ callback' = IF SafeUrl(idp.base) /\ SafeUrl(endpoint)
                   THEN [callback EXCEPT ![c].step = "exchanging", ![c].sentTo = endpoint]
                   ELSE [callback EXCEPT ![c].step = "failed"]
    /\ UNCHANGED <<idp, cookie, flow>>

(* The provider redeems a code once, and only with the verifier of the     *)
(* challenge it was issued under (external).                               *)
Redeems(c) ==
    LET f == callback[c].flow  tx == callback[c].tx IN
    /\ ~flow[f].spent
    /\ flow[f].pkce => f = tx

(* The token exchange; the answer may be lost, not ok, or without a token. *)
Exchange(c, usable) ==
    /\ callback[c].step = "exchanging"
    /\ flow' = [flow EXCEPT ![callback[c].flow].spent = @ \/ Redeems(c)]
    /\ callback' = [callback EXCEPT
          ![c].step = IF Redeems(c) /\ usable THEN "profile" ELSE "failed",
          ![c].account = IF Redeems(c) /\ usable THEN flow[callback[c].flow].account
                         ELSE NoAccount,
          ![c].sentTo = IF idp.name = "github" THEN "https" ELSE @]
    /\ UNCHANGED <<idp, cookie>>

(* Google's userinfo: the endpoint exists and is safe, the answer carries  *)
(* sub and email.                                                          *)
GoogleProfile(c, endpoint, whole) ==
    /\ callback[c].step = "profile" /\ idp.name = "google"
    /\ callback' = [callback EXCEPT
          ![c].step = IF SafeUrl(endpoint) /\ whole THEN "done" ELSE "failed",
          ![c].email = IF SafeUrl(endpoint) /\ whole THEN "public" ELSE "unknown"]
    /\ UNCHANGED <<idp, cookie, flow>>

(* GitHub's /user: id and login, and perhaps a public address.             *)
GitHubProfile(c, public, whole) ==
    /\ callback[c].step = "profile" /\ idp.name = "github"
    /\ callback' = [callback EXCEPT
          ![c].step = IF ~whole THEN "failed"
                      ELSE IF idp.wantsEmail /\ ~public THEN "emails" ELSE "done",
          ![c].email = IF whole /\ public THEN "public"
                       ELSE IF whole /\ ~idp.wantsEmail THEN "none" ELSE "unknown"]
    /\ UNCHANGED <<idp, cookie, flow>>

(* The verified primary address, else the first verified one, else none.   *)
ChosenEmail(entries) ==
    IF \E i \in DOMAIN entries : entries[i].verified THEN "verified" ELSE "none"

GitHubEmails(c, entries, answered) ==
    /\ callback[c].step = "emails"
    /\ callback' = [callback EXCEPT ![c].step = IF answered THEN "done" ELSE "failed",
                                    ![c].email = IF answered THEN ChosenEmail(entries) ELSE @]
    /\ UNCHANGED <<idp, cookie, flow>>

OAuthNext ==
    \/ \E base \in Urls : WireIdp("google", base, FALSE)
    \/ \E wantsEmail \in BOOLEAN : WireIdp("github", "https", wantsEmail)
    \/ \E f \in Flows :
          \/ \E pkce \in BOOLEAN, endpoint \in Urls : StartFlow(f, pkce, endpoint)
          \/ \E a \in Accounts \cup {NoAccount} : Consent(f, a)
    \/ \E c \in Callbacks :
          \/ \E f \in Flows : Arrive(c, f)
          \/ \E endpoint \in Urls : Discover(c, endpoint)
          \/ \E usable \in BOOLEAN : Exchange(c, usable)
          \/ \E endpoint \in Urls, whole \in BOOLEAN : GoogleProfile(c, endpoint, whole)
          \/ \E public, whole \in BOOLEAN : GitHubProfile(c, public, whole)
          \/ \E entries \in EmailLists, answered \in BOOLEAN : GitHubEmails(c, entries, answered)

OAuthSpec == OAuthInit /\ [][OAuthNext]_oauthVars

----------------------------------------------------------------------------
SignedUp(c) == callback[c].step = "done"

(* The identity that comes out is that of the account that approved the    *)
(* transaction the browser carried when it came back, whichever tabs were  *)
(* open (auth-github index.ts:171-176, auth-google index.ts:221-226).      *)
IdentityOfTransaction ==
    \A c \in Callbacks : SignedUp(c) =>
        /\ callback[c].tx \in Flows
        /\ callback[c].account = flow[callback[c].tx].account
        /\ callback[c].account # NoAccount

(* One approval signs in at most once, however often the callback page is  *)
(* loaded.                                                                 *)
OneSignInPerApproval ==
    \A c, d \in Callbacks :
        SignedUp(c) /\ SignedUp(d) /\ callback[c].flow = callback[d].flow => c = d

(* The client secret only goes to an https or loopback endpoint, whatever  *)
(* the discovery document says the second time (index.ts:236-239).         *)
SecretStaysSafe ==
    \A c \in Callbacks : callback[c].account # NoAccount => SafeUrl(callback[c].sentTo)

(* An identity carries no unverified address from the list, and carries    *)
(* one when there is a verified one and the scope was granted              *)
(* (auth-github index.ts:264-293).                                         *)
EmailIsVerified ==
    \A c \in Callbacks : SignedUp(c) =>
        /\ callback[c].email # "unverified"
        /\ (idp.wantsEmail \/ idp.name = "google") => callback[c].email # "unknown"

(* What a sign-in by another service promises, part by part.               *)
SignInKept ==
    OAuthTypeOK /\ IdentityOfTransaction /\ OneSignInPerApproval /\ SecretStaysSafe /\ EmailIsVerified
=============================================================================
