------------------------------ MODULE MagicLink ------------------------------
(***************************************************************************)
(* Sign-in by e-mailed link: the magicLink provider of auth-magic-link     *)
(* (index.ts), its two token stores (store.ts), and the sender of          *)
(* plugin-email that mails the link through Resend.  A sign-in makes one   *)
(* token; the link may be clicked several times, on several devices and    *)
(* at the same moment.  Time is a small counter, and the instant at which  *)
(* an operation reads the clock may come before the instant at which the   *)
(* database acts.  The repository behind the ORM store, Resend and the     *)
(* recipient are external.                                                 *)
(***************************************************************************)
EXTENDS Naturals

CONSTANTS
    Tokens,     \* sign-ins, by the token each one generates
    Clicks,     \* callback requests
    Mailboxes,  \* well-formed addresses
    Malformed,  \* a text that fails EMAIL_GUARD
    NoEmail,
    NoToken,
    SignIns,    \* start requests: [query, parsed, body, field]
    Lifetime,   \* tokenLifetimeMs
    MaxTime     \* bound on the clock

ASSUME MagicLinkAssumption ==
    /\ Malformed \notin Mailboxes /\ NoEmail \notin Mailboxes /\ Malformed # NoEmail
    /\ NoToken \notin Tokens
    /\ Lifetime \in Nat \ {0}
    /\ MaxTime \in Nat

VARIABLES
    adapter,  \* which store the provider was built with
    now,      \* the clock
    row,      \* the store: [email, expiresAt, state] for each token
    signIn,   \* startSignIn, one per token: [step, email, expiresAt]
    mailbox,  \* tokens whose link Resend delivered, with the address
    click     \* handleCallback: [token, asked, step, email, at]

magicVars == <<adapter, now, row, signIn, mailbox, click>>

NoLink == [email |-> NoEmail, expiresAt |-> 0, state |-> "absent"]
NoSignIn == [step |-> "idle", email |-> NoEmail, expiresAt |-> 0]
NoClick == [token |-> NoToken, asked |-> 0, step |-> "idle", email |-> NoEmail, at |-> 0]

LinkRow == [email : Mailboxes \cup {NoEmail}, expiresAt : Nat,
        state : {"absent", "live", "consumed", "removed", "lost"}]

(* Type invariant: only well-formed addresses reach the store              *)
(* (index.ts:183-198, 262-268).                                            *)
MagicTypeOK ==
    /\ adapter \in {"none", "refused", "memory", "orm"}
    /\ now \in Nat
    /\ row \in [Tokens -> LinkRow]
    /\ signIn \in [Tokens -> [step : {"idle", "creating", "sending", "sent", "failed"},
                              email : Mailboxes \cup {NoEmail}, expiresAt : Nat]]
    /\ mailbox \subseteq Tokens \X (Mailboxes \cup {NoEmail})
    /\ click \in [Clicks -> [token : Tokens \cup {NoToken}, asked : Nat,
                             step : {"idle", "consuming", "checking", "in", "refused"},
                             email : Mailboxes \cup {NoEmail}, at : Nat]]

MagicInit ==
    /\ adapter = "none"
    /\ now = 0
    /\ row = [t \in Tokens |-> NoLink]
    /\ signIn = [t \in Tokens |-> NoSignIn]
    /\ mailbox = {}
    /\ click = [c \in Clicks |-> NoClick]

----------------------------------------------------------------------------
(* magicLink(opts): the base URL is checked when the provider is built.    *)
Build(store, absoluteHttp) ==
    /\ adapter = "none"
    /\ adapter' = IF absoluteHttp THEN store ELSE "refused"
    /\ UNCHANGED <<now, row, signIn, mailbox, click>>

Ready == adapter \in {"memory", "orm"}

Tick ==
    /\ Ready /\ now < MaxTime
    /\ now' = now + 1
    /\ UNCHANGED <<adapter, row, signIn, mailbox, click>>

(* defaultResolveEmail: the query string, else a body the framework has    *)
(* parsed, which replaces the stream, else the body, when it is a POST or  *)
(* a PUT of at most MAX_BODY_BYTES that parses.                            *)
ReadBody(req) == IF req.body \in {"json", "form"} THEN req.field ELSE NoEmail

ResolvedEmail(req) ==
    CASE req.query # NoEmail -> req.query
      [] req.query = NoEmail /\ req.parsed -> req.field
      [] OTHER -> ReadBody(req)

(* validateEmail                                                           *)
Valid(email) == email \in Mailboxes

(* startSignIn, up to the call of createToken.                             *)
StartSignIn(t, req) ==
    /\ Ready /\ signIn[t].step = "idle"
    /\ signIn' = [signIn EXCEPT ![t] =
          IF Valid(ResolvedEmail(req))
          THEN [step |-> "creating", email |-> ResolvedEmail(req), expiresAt |-> now + Lifetime]
          ELSE [step |-> "failed", email |-> NoEmail, expiresAt |-> 0]]
    /\ UNCHANGED <<adapter, now, row, mailbox, click>>

(* createToken: the row is there before the mail is handed over.           *)
CreateToken(t) ==
    /\ signIn[t].step = "creating"
    /\ row' = [row EXCEPT ![t] = [email |-> signIn[t].email,
                                  expiresAt |-> signIn[t].expiresAt, state |-> "live"]]
    /\ signIn' = [signIn EXCEPT ![t].step = "sending"]
    /\ UNCHANGED <<adapter, now, mailbox, click>>

(* The repository's insert fails: nothing is mailed.                       *)
CreateFails(t) ==
    /\ signIn[t].step = "creating" /\ adapter = "orm"
    /\ signIn' = [signIn EXCEPT ![t].step = "failed"]
    /\ UNCHANGED <<adapter, now, row, mailbox, click>>

(* sendMagicLink and ResendProvider.send: whatever Resend answers, a       *)
(* failure of the call or an answer without data rejects startSignIn.  A   *)
(* call that failed may have delivered the mail.                           *)
SendMail(t, delivered, answered) ==
    /\ signIn[t].step = "sending"
    /\ answered => delivered
    /\ mailbox' = IF delivered THEN mailbox \cup {<<t, signIn[t].email>>} ELSE mailbox
    /\ signIn' = [signIn EXCEPT ![t].step = IF answered THEN "sent" ELSE "failed"]
    /\ UNCHANGED <<adapter, now, row, click>>

----------------------------------------------------------------------------
Links == {m[1] : m \in mailbox}

(* handleCallback: a URL without a token is refused; otherwise consumeToken *)
(* is called, and the ORM store reads the clock for the repository then.   *)
OpenLink(c, t) ==
    /\ Ready /\ click[c].step = "idle"
    /\ t \in Links \cup {NoToken}
    /\ click' = [click EXCEPT ![c] =
          [token |-> t, asked |-> now, email |-> NoEmail, at |-> 0,
           step |-> IF t = NoToken THEN "refused" ELSE "consuming"]]
    /\ UNCHANGED <<adapter, now, row, signIn, mailbox>>

Refused(c) == [click EXCEPT ![c].step = "refused"]
SignedIn(c, email) == [click EXCEPT ![c].step = "in", ![c].email = email, ![c].at = now]

Consumed(t) == [row EXCEPT ![t].state = "consumed"]

(* The memory store takes the entry and checks its expiry in one turn.     *)
ConsumeInMemory(c) ==
    LET t == click[c].token IN
    /\ adapter = "memory" /\ click[c].step = "consuming"
    /\ IF row[t].state = "live"
       THEN /\ row' = Consumed(t)
            /\ click' = IF row[t].expiresAt > now THEN SignedIn(c, row[t].email) ELSE Refused(c)
       ELSE /\ click' = Refused(c)
            /\ UNCHANGED row
    /\ UNCHANGED <<adapter, now, signIn, mailbox>>

(* consumeAtomically (external): one statement marks the row and returns   *)
(* it; the repository may or may not leave expired rows out, by the time   *)
(* it was given.                                                           *)
ConsumeAtomically(c) ==
    LET t == click[c].token IN
    /\ adapter = "orm" /\ click[c].step = "consuming"
    /\ \/ /\ row[t].state = "live"
          /\ row' = Consumed(t)
          /\ click' = [click EXCEPT ![c].step = "checking", ![c].email = row[t].email]
       \/ /\ row[t].state # "live" \/ row[t].expiresAt <= click[c].asked
          /\ click' = Refused(c)
          /\ UNCHANGED row
    /\ UNCHANGED <<adapter, now, signIn, mailbox>>

(* Back in consumeToken: the expiry is checked against the clock again.    *)
MutCheckExpiry(c) ==
    /\ click[c].step = "checking"
    /\ click' = SignedIn(c, click[c].email)
    /\ UNCHANGED <<adapter, now, row, signIn, mailbox>>

CheckExpiry(c) ==
    /\ click[c].step = "checking"
    /\ click' = IF row[click[c].token].expiresAt > now THEN SignedIn(c, click[c].email)
                ELSE [Refused(c) EXCEPT ![c].email = NoEmail]
    /\ UNCHANGED <<adapter, now, row, signIn, mailbox>>

----------------------------------------------------------------------------
(* revokeToken and cleanupExpired, which the application calls.            *)
Revoke(t) ==
    /\ Ready /\ row[t].state = "live"
    /\ row' = [row EXCEPT ![t].state = "removed"]
    /\ UNCHANGED <<adapter, now, signIn, mailbox, click>>

CleanupExpired ==
    /\ Ready /\ \E t \in Tokens : row[t].state = "live" /\ row[t].expiresAt <= now
    /\ row' = [t \in Tokens |-> IF row[t].state = "live" /\ row[t].expiresAt <= now
                                THEN [row[t] EXCEPT !.state = "removed"] ELSE row[t]]
    /\ UNCHANGED <<adapter, now, signIn, mailbox, click>>

(* A restart: requests in flight are gone, and so is a Map.                *)
Restart ==
    /\ Ready /\ \E t \in Tokens : signIn[t].step # "idle"
    /\ signIn' = [t \in Tokens |-> IF signIn[t].step \in {"creating", "sending"}
                                   THEN [signIn[t] EXCEPT !.step = "failed"] ELSE signIn[t]]
    /\ click' = [c \in Clicks |-> IF click[c].step \in {"consuming", "checking"}
                    THEN [click[c] EXCEPT !.step = "refused", !.email = NoEmail] ELSE click[c]]
    /\ row' = [t \in Tokens |-> IF adapter = "memory" /\ row[t].state = "live"
                                THEN [row[t] EXCEPT !.state = "lost"] ELSE row[t]]
    /\ UNCHANGED <<adapter, now, mailbox>>

MagicNext ==
    \/ \E s \in {"memory", "orm"}, ok \in BOOLEAN : Build(s, ok)
    \/ Tick
    \/ \E t \in Tokens :
          \/ \E req \in SignIns : StartSignIn(t, req)
          \/ CreateToken(t)
          \/ CreateFails(t)
          \/ \E delivered, answered \in BOOLEAN : SendMail(t, delivered, answered)
          \/ Revoke(t)
    \/ \E c \in Clicks :
          \/ \E t \in Tokens \cup {NoToken} : OpenLink(c, t)
          \/ ConsumeInMemory(c)
          \/ ConsumeAtomically(c)
          \/ CheckExpiry(c)
    \/ CleanupExpired
    \/ Restart

MagicSpec == MagicInit /\ [][MagicNext]_magicVars

----------------------------------------------------------------------------
Winner(c) == click[c].step = "in"
Holder(c) == click[c].step \in {"checking", "in"}

(* Of all the clicks on a link at most one signs in, however they race     *)
(* with each other, with a clean-up and with the expiry (index.ts:203-205, *)
(* store.ts:49-60, 119-124).                                               *)
OneClickWins ==
    \A c, d \in Clicks :
        Holder(c) /\ Holder(d) /\ click[c].token = click[d].token => c = d

(* The row of a link somebody has used, or is using, is spent.             *)
UsedIsSpent ==
    \A c \in Clicks : Holder(c) => row[click[c].token].state = "consumed"

(* Who signs in is the owner of the mailbox the link was sent to, while    *)
(* the link was valid (index.ts:318-328, store.ts:57, 122).                *)
WinnerIsRecipient ==
    \A c \in Clicks : Winner(c) =>
        /\ <<click[c].token, click[c].email>> \in mailbox
        /\ click[c].at < row[click[c].token].expiresAt

(* A link that was mailed has its row: it can be refused only because it   *)
(* was used, revoked, cleaned up or lost with the memory of the process    *)
(* (index.ts:268-277).                                                     *)
MailedIsStored ==
    \A m \in mailbox : row[m[1]].state # "absent" /\ row[m[1]].email = m[2]

(* What a sign-in link promises, part by part.                             *)
LinkKept == MagicTypeOK /\ OneClickWins /\ UsedIsSpent /\ WinnerIsRecipient /\ MailedIsStored
=============================================================================
