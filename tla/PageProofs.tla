------------------------------ MODULE PageProofs ------------------------------
(***************************************************************************)
(* What a page keeps of a server it cannot see: a sign-in, a recording, a  *)
(* room and a form, whatever is answered, and in whatever order.           *)
(***************************************************************************)
EXTENDS MagicLink, OAuthSignIn, VoiceRecorder, SpeechPlayback, RealtimeClient,
        ActionForm, SequenceTheorems, FiniteSetTheorems, TLAPS

----------------------------------------------------------------------------
(* Signing in.  By a mailed link: a link signs one click in, of the owner  *)
(* of the mailbox it was sent to, for any number of tokens, clicks and     *)
(* addresses, any lifetime, and every interleaving with clean-ups,         *)
(* revocations and restarts, in both stores.  By Google or GitHub: an      *)
(* approval signs in once, and the one who gave it, for any number of      *)
(* transactions, callbacks and accounts.                                   *)

(* The row of a token follows its sign-in: none before createToken, and    *)
(* that of the address the mail goes to after it (index.ts:262-277).       *)
RowOf(t) ==
    /\ signIn[t].step \in {"idle", "creating"} => row[t].state = "absent"
    /\ signIn[t].step \in {"creating", "sending"} => signIn[t].email \in Mailboxes
    /\ signIn[t].step \in {"sending", "sent"} =>
          row[t].state # "absent" /\ row[t].email = signIn[t].email

RowFollowsSignIn == \A t \in Tokens : RowOf(t)

(* Only links that were mailed are clicked, and whoever holds the e-mail   *)
(* of a row has spent it (store.ts:49-60, 119-124).                        *)
Follows(c) ==
    /\ click[c].step = "consuming" => click[c].token \in Tokens /\ click[c].token \in Links
    /\ Holder(c) =>
          /\ click[c].token \in Tokens
          /\ row[click[c].token].state = "consumed"
          /\ <<click[c].token, click[c].email>> \in mailbox
    /\ Winner(c) => click[c].at < row[click[c].token].expiresAt

ClickFollowsLink == \A c \in Clicks : Follows(c)

(* The rows of the other two tables, by the names the proofs use.          *)
ClickRow == [token : Tokens \cup {NoToken}, asked : Nat,
             step : {"idle", "consuming", "checking", "in", "refused"},
             email : Mailboxes \cup {NoEmail}, at : Nat]
SignInRow == [step : {"idle", "creating", "sending", "sent", "failed"},
              email : Mailboxes \cup {NoEmail}, expiresAt : Nat]

MagicInv == MagicTypeOK /\ RowFollowsSignIn /\ MailedIsStored /\ ClickFollowsLink /\ OneClickWins

(* A provider starts with an empty store and nothing mailed.               *)
LEMMA MagicInitInv == MagicInit => MagicInv
BY MagicLinkAssumption
   DEF MagicInit, MagicInv, MagicTypeOK, RowFollowsSignIn, RowOf, MailedIsStored,
       ClickFollowsLink, Follows, OneClickWins, Holder, Winner, LinkRow, NoLink, NoSignIn,
       NoClick

----------------------------------------------------------------------------
(* Every variable keeps its type.                                          *)
LEMMA MagicTypeStep ==
    ASSUME MagicTypeOK, RowFollowsSignIn, ClickFollowsLink, [MagicNext]_magicVars
    PROVE  MagicTypeOK'
<1> USE MagicLinkAssumption DEF MagicTypeOK, LinkRow
<1>1. ASSUME NEW s \in {"memory", "orm"}, NEW ok, Build(s, ok) PROVE MagicTypeOK'
  BY <1>1 DEF Build
<1>2. CASE Tick
  BY <1>2 DEF Tick
<1>3. ASSUME NEW t \in Tokens, NEW req, StartSignIn(t, req) PROVE MagicTypeOK'
  BY <1>3 DEF StartSignIn, Valid
<1>4. ASSUME NEW t \in Tokens, CreateToken(t) PROVE MagicTypeOK'
  BY <1>4 DEF CreateToken
<1>5. ASSUME NEW t \in Tokens, CreateFails(t) PROVE MagicTypeOK'
  BY <1>5 DEF CreateFails
<1>6. ASSUME NEW t \in Tokens, NEW delivered, NEW answered, SendMail(t, delivered, answered)
      PROVE  MagicTypeOK'
  BY <1>6 DEF SendMail
<1>7. ASSUME NEW t \in Tokens, Revoke(t) PROVE MagicTypeOK'
  BY <1>7 DEF Revoke
<1>8. ASSUME NEW c \in Clicks, NEW t \in Tokens \cup {NoToken}, OpenLink(c, t)
      PROVE  MagicTypeOK'
  BY <1>8 DEF OpenLink
<1>9. ASSUME NEW c \in Clicks, ConsumeInMemory(c) PROVE MagicTypeOK'
  <2>1. click[c].token \in Tokens
    BY <1>9 DEF ConsumeInMemory, ClickFollowsLink, Follows
  <2>2. row' \in [Tokens -> LinkRow]
    BY <1>9, <2>1 DEF ConsumeInMemory, Consumed
  <2>3. click' = Refused(c) \/ click' = SignedIn(c, row[click[c].token].email)
    BY <1>9 DEF ConsumeInMemory
  <2> QED
    BY <1>9, <2>1, <2>2, <2>3 DEF ConsumeInMemory, SignedIn, Refused
<1>10. ASSUME NEW c \in Clicks, ConsumeAtomically(c) PROVE MagicTypeOK'
  <2>1. click[c].token \in Tokens
    BY <1>10 DEF ConsumeAtomically, ClickFollowsLink, Follows
  <2>2. row' \in [Tokens -> LinkRow]
    BY <1>10, <2>1 DEF ConsumeAtomically, Consumed
  <2>3. \/ click' = Refused(c)
        \/ click' = [click EXCEPT ![c].step = "checking",
                                  ![c].email = row[click[c].token].email]
    BY <1>10 DEF ConsumeAtomically
  <2>4. click' \in [Clicks -> ClickRow]
    <3>1. click \in [Clicks -> ClickRow] /\ row[click[c].token].email \in Mailboxes \cup {NoEmail}
      BY <2>1 DEF ClickRow
    <3>2. CASE click' = Refused(c)
      BY <3>1, <3>2 DEF Refused, ClickRow
    <3>3. CASE click' = [click EXCEPT ![c].step = "checking",
                                      ![c].email = row[click[c].token].email]
      <4>1. [click[c] EXCEPT !.step = "checking", !.email = row[click[c].token].email] \in ClickRow
        BY <3>1 DEF ClickRow
      <4>2. click' = [click EXCEPT ![c] =
                         [click[c] EXCEPT !.step = "checking", !.email = row[click[c].token].email]]
        BY <3>1, <3>3 DEF ClickRow
      <4> QED
        BY <3>1, <4>1, <4>2
    <3> QED
      BY <2>3, <3>2, <3>3
  <2> QED
    BY <1>10, <2>2, <2>4 DEF ConsumeAtomically, ClickRow
<1>11. ASSUME NEW c \in Clicks, CheckExpiry(c) PROVE MagicTypeOK'
  <2>1. \/ click' = SignedIn(c, click[c].email)
        \/ click' = [Refused(c) EXCEPT ![c].email = NoEmail]
    BY <1>11 DEF CheckExpiry
  <2>2. CASE click' = SignedIn(c, click[c].email)
    <3>1. click \in [Clicks -> ClickRow] /\ click[c].email \in Mailboxes \cup {NoEmail}
      BY DEF ClickRow
    <3>2. click' \in [Clicks -> ClickRow]
      <4>1. [click[c] EXCEPT !.step = "in", !.email = click[c].email, !.at = now] \in ClickRow
        BY <3>1 DEF ClickRow
      <4>2. click' = [click EXCEPT ![c] =
                         [click[c] EXCEPT !.step = "in", !.email = click[c].email, !.at = now]]
        BY <2>2, <3>1 DEF SignedIn, ClickRow
      <4> QED
        BY <3>1, <4>1, <4>2
    <3> QED
      BY <1>11, <3>2 DEF CheckExpiry, ClickRow
  <2>3. CASE click' = [Refused(c) EXCEPT ![c].email = NoEmail]
    <3>1. Refused(c) \in [Clicks -> ClickRow]
      BY DEF Refused, ClickRow
    <3>2. click' \in [Clicks -> ClickRow]
      BY <2>3, <3>1 DEF ClickRow
    <3> QED
      BY <1>11, <3>2 DEF CheckExpiry, ClickRow
  <2> QED
    BY <2>1, <2>2, <2>3
<1>12. CASE CleanupExpired
  <2>1. row' \in [Tokens -> LinkRow]
    <3> SUFFICES ASSUME NEW t \in Tokens
                 PROVE  (IF row[t].state = "live" /\ row[t].expiresAt <= now
                         THEN [row[t] EXCEPT !.state = "removed"] ELSE row[t]) \in LinkRow
      BY <1>12 DEF CleanupExpired
    <3> QED
      OBVIOUS
  <2> QED
    BY <1>12, <2>1 DEF CleanupExpired
<1>13. CASE Restart
  <2>1. row' \in [Tokens -> LinkRow]
    <3> SUFFICES ASSUME NEW t \in Tokens
                 PROVE  (IF adapter = "memory" /\ row[t].state = "live"
                         THEN [row[t] EXCEPT !.state = "lost"] ELSE row[t]) \in LinkRow
      BY <1>13 DEF Restart
    <3> QED
      OBVIOUS
  <2>2. click' \in [Clicks -> ClickRow]
    <3> SUFFICES ASSUME NEW c \in Clicks
                 PROVE  (IF click[c].step \in {"consuming", "checking"}
                         THEN [click[c] EXCEPT !.step = "refused", !.email = NoEmail]
                         ELSE click[c]) \in ClickRow
      BY <1>13 DEF Restart
    <3> QED
      BY DEF ClickRow
  <2>3. signIn' \in [Tokens -> SignInRow]
    <3> SUFFICES ASSUME NEW t \in Tokens
                 PROVE  (IF signIn[t].step \in {"creating", "sending"}
                         THEN [signIn[t] EXCEPT !.step = "failed"] ELSE signIn[t]) \in SignInRow
      BY <1>13 DEF Restart
    <3> QED
      BY DEF SignInRow
  <2> QED
    BY <1>13, <2>1, <2>2, <2>3 DEF Restart, ClickRow, SignInRow
<1>14. CASE UNCHANGED magicVars
  BY <1>14 DEF magicVars
<1> QED
  BY <1>1, <1>2, <1>3, <1>4, <1>5, <1>6, <1>7, <1>8, <1>9, <1>10, <1>11, <1>12, <1>13,
     <1>14 DEF MagicNext

----------------------------------------------------------------------------
(* A row, once there, keeps its address and its expiry, and a spent one    *)
(* stays spent; a mail that was delivered stays so.                        *)
RowsLast ==
    /\ mailbox \subseteq mailbox'
    /\ \A t \in Tokens : row[t].state # "absent" =>
          /\ row'[t].state # "absent"
          /\ row'[t].email = row[t].email /\ row'[t].expiresAt = row[t].expiresAt
          /\ row[t].state = "consumed" => row'[t].state = "consumed"

LEMMA RowHistory ==
    ASSUME MagicInv, [MagicNext]_magicVars PROVE RowsLast
<1> USE DEF RowsLast, MagicInv, MagicTypeOK, LinkRow
<1>1. ASSUME NEW s, NEW ok, Build(s, ok) PROVE RowsLast
  BY <1>1 DEF Build
<1>2. CASE Tick
  BY <1>2 DEF Tick
<1>3. ASSUME NEW t \in Tokens, NEW req, StartSignIn(t, req) PROVE RowsLast
  BY <1>3 DEF StartSignIn
<1>4. ASSUME NEW t \in Tokens, CreateToken(t) PROVE RowsLast
  BY <1>4 DEF CreateToken, RowFollowsSignIn, RowOf
<1>5. ASSUME NEW t \in Tokens, CreateFails(t) PROVE RowsLast
  BY <1>5 DEF CreateFails
<1>6. ASSUME NEW t \in Tokens, NEW delivered, NEW answered, SendMail(t, delivered, answered)
      PROVE  RowsLast
  BY <1>6 DEF SendMail
<1>7. ASSUME NEW t \in Tokens, Revoke(t) PROVE RowsLast
  BY <1>7 DEF Revoke
<1>8. ASSUME NEW c \in Clicks, NEW t, OpenLink(c, t) PROVE RowsLast
  BY <1>8 DEF OpenLink
<1>9. ASSUME NEW c \in Clicks, ConsumeInMemory(c) PROVE RowsLast
  BY <1>9 DEF ConsumeInMemory, Consumed
<1>10. ASSUME NEW c \in Clicks, ConsumeAtomically(c) PROVE RowsLast
  BY <1>10 DEF ConsumeAtomically, Consumed
<1>11. ASSUME NEW c \in Clicks, CheckExpiry(c) PROVE RowsLast
  BY <1>11 DEF CheckExpiry
<1>12. CASE CleanupExpired
  BY <1>12 DEF CleanupExpired
<1>13. CASE Restart
  BY <1>13 DEF Restart
<1>14. CASE UNCHANGED magicVars
  BY <1>14 DEF magicVars
<1> QED
  BY <1>1, <1>2, <1>3, <1>4, <1>5, <1>6, <1>7, <1>8, <1>9, <1>10, <1>11, <1>12, <1>13,
     <1>14 DEF MagicNext

(* The store and the mailbox agree with the sign-ins after every step.     *)
LEMMA StoreStep ==
    ASSUME MagicInv, [MagicNext]_magicVars PROVE RowFollowsSignIn' /\ MailedIsStored'
<1> DEFINE Kept == RowFollowsSignIn' /\ MailedIsStored'
<1>a. /\ RowsLast /\ row \in [Tokens -> LinkRow] /\ signIn \in [Tokens -> SignInRow]
      /\ mailbox \subseteq Tokens \X (Mailboxes \cup {NoEmail})
      /\ RowFollowsSignIn /\ MailedIsStored
  BY RowHistory DEF MagicInv, MagicTypeOK, SignInRow
<1>b. ASSUME UNCHANGED mailbox PROVE MailedIsStored'
  BY <1>a, <1>b DEF RowsLast, MailedIsStored
<1>c. ASSUME UNCHANGED mailbox, UNCHANGED signIn,
             \A t \in Tokens : row[t].state = "absent" => row'[t].state = "absent"
      PROVE  Kept
  <2>1. RowFollowsSignIn'
    BY <1>a, <1>c DEF RowsLast, RowFollowsSignIn, RowOf
  <2> QED
    BY <1>b, <1>c, <2>1
<1>1. ASSUME NEW s, NEW ok, Build(s, ok) PROVE Kept
  BY <1>1, <1>c DEF Build
<1>2. CASE Tick
  BY <1>2, <1>c DEF Tick
<1>3. ASSUME NEW t \in Tokens, NEW req, StartSignIn(t, req) PROVE Kept
  <2>1. row[t].state = "absent" /\ UNCHANGED <<row, mailbox>>
    BY <1>3, <1>a DEF StartSignIn, RowFollowsSignIn, RowOf
  <2>2. /\ signIn'[t].step \in {"creating", "failed"}
        /\ signIn'[t].step = "creating" => signIn'[t].email \in Mailboxes
        /\ \A u \in Tokens \ {t} : signIn'[u] = signIn[u]
    BY <1>3, <1>a DEF StartSignIn, Valid
  <2>3. RowFollowsSignIn'
    BY <1>a, <2>1, <2>2 DEF RowFollowsSignIn, RowOf
  <2> QED
    BY <1>b, <2>1, <2>3
<1>4. ASSUME NEW t \in Tokens, CreateToken(t) PROVE Kept
  <2>1. /\ row'[t].state = "live" /\ row'[t].email = signIn[t].email
        /\ signIn[t].step = "creating" /\ UNCHANGED mailbox
        /\ signIn'[t].step = "sending" /\ signIn'[t].email = signIn[t].email
        /\ \A u \in Tokens \ {t} : signIn'[u] = signIn[u] /\ row'[u] = row[u]
    BY <1>4, <1>a DEF CreateToken, SignInRow
  <2>2. RowFollowsSignIn'
    BY <1>a, <2>1 DEF RowFollowsSignIn, RowOf
  <2> QED
    BY <1>b, <2>1, <2>2
<1>5. ASSUME NEW t \in Tokens, CreateFails(t) PROVE Kept
  <2>1. /\ UNCHANGED <<row, mailbox>> /\ signIn'[t].step = "failed"
        /\ \A u \in Tokens \ {t} : signIn'[u] = signIn[u]
    BY <1>5, <1>a DEF CreateFails, SignInRow
  <2>2. RowFollowsSignIn'
    BY <1>a, <2>1 DEF RowFollowsSignIn, RowOf
  <2> QED
    BY <1>b, <2>1, <2>2
<1>6. ASSUME NEW t \in Tokens, NEW delivered, NEW answered, SendMail(t, delivered, answered)
      PROVE  Kept
  <2>1. /\ UNCHANGED row /\ signIn[t].step = "sending"
        /\ signIn'[t].step \in {"sent", "failed"} /\ signIn'[t].email = signIn[t].email
        /\ \A u \in Tokens \ {t} : signIn'[u] = signIn[u]
    BY <1>6, <1>a DEF SendMail, SignInRow
  <2>2. RowFollowsSignIn'
    BY <1>a, <2>1 DEF RowFollowsSignIn, RowOf
  <2>3. row[t].state # "absent" /\ row[t].email = signIn[t].email
    BY <1>a, <2>1 DEF RowFollowsSignIn, RowOf
  <2>4. mailbox' \subseteq mailbox \cup {<<t, signIn[t].email>>}
    BY <1>6 DEF SendMail
  <2>5. MailedIsStored'
    BY <1>a, <2>1, <2>3, <2>4 DEF MailedIsStored
  <2> QED
    BY <2>2, <2>5
<1>7. ASSUME NEW t \in Tokens, Revoke(t) PROVE Kept
  BY <1>7, <1>a, <1>c DEF Revoke, LinkRow
<1>8. ASSUME NEW c \in Clicks, NEW t, OpenLink(c, t) PROVE Kept
  BY <1>8, <1>c DEF OpenLink
<1>9. ASSUME NEW c \in Clicks, ConsumeInMemory(c) PROVE Kept
  BY <1>9, <1>a, <1>c DEF ConsumeInMemory, Consumed, LinkRow
<1>10. ASSUME NEW c \in Clicks, ConsumeAtomically(c) PROVE Kept
  BY <1>10, <1>a, <1>c DEF ConsumeAtomically, Consumed, LinkRow
<1>11. ASSUME NEW c \in Clicks, CheckExpiry(c) PROVE Kept
  BY <1>11, <1>c DEF CheckExpiry
<1>12. CASE CleanupExpired
  BY <1>12, <1>a, <1>c DEF CleanupExpired, LinkRow
<1>13. CASE Restart
  <2>1. /\ UNCHANGED mailbox
        /\ \A t \in Tokens : /\ row[t].state = "absent" => row'[t].state = "absent"
                             /\ signIn'[t] = signIn[t] \/ signIn'[t].step = "failed"
    BY <1>13, <1>a DEF Restart, LinkRow, SignInRow
  <2>2. RowFollowsSignIn'
    <3> SUFFICES ASSUME NEW t \in Tokens PROVE RowOf(t)'
      BY DEF RowFollowsSignIn
    <3>1. CASE signIn'[t] = signIn[t]
      BY <1>a, <2>1, <3>1 DEF RowsLast, RowFollowsSignIn, RowOf
    <3>2. CASE signIn'[t].step = "failed"
      BY <3>2 DEF RowOf
    <3> QED
      BY <2>1, <3>1, <3>2
  <2> QED
    BY <1>b, <2>1, <2>2
<1>14. CASE UNCHANGED magicVars
  BY <1>14, <1>c DEF magicVars
<1> QED
  BY <1>1, <1>2, <1>3, <1>4, <1>5, <1>6, <1>7, <1>8, <1>9, <1>10, <1>11, <1>12, <1>13,
     <1>14 DEF MagicNext

----------------------------------------------------------------------------
(* A click that changes nothing of what it holds, while rows last, keeps   *)
(* what is known of it.                                                    *)
LEMMA FollowsStill ==
    ASSUME RowsLast, NEW c \in Clicks, Follows(c), click'[c] = click[c]
    PROVE  Follows(c)'
BY DEF RowsLast, Follows, Holder, Winner, Links

(* A row that is live has not been spent by any click.                     *)
LEMMA LiveIsFree ==
    ASSUME MagicInv, NEW t \in Tokens, row[t].state = "live", NEW c \in Clicks, Holder(c)
    PROVE  click[c].token # t
BY DEF MagicInv, ClickFollowsLink, Follows

(* The row of a link that was mailed is that of the mail's recipient.      *)
LEMMA LinkRowOfMail ==
    ASSUME MagicInv, NEW t \in Tokens, t \in Links
    PROVE  <<t, row[t].email>> \in mailbox
<1>1. PICK m \in mailbox : m[1] = t
  BY DEF Links
<1>2. m = <<t, row[t].email>>
  BY <1>1 DEF MagicInv, MagicTypeOK, MailedIsStored
<1> QED
  BY <1>2

(* One click moves: it is sound afterwards, and nobody else holds the row  *)
(* it takes.                                                               *)
LEMMA OneMoves ==
    ASSUME MagicInv, RowsLast, NEW c \in Clicks, Follows(c)',
           \A d \in Clicks \ {c} : click'[d] = click[d],
           Holder(c)' => /\ click'[c].token = click[c].token
                         /\ Holder(c) \/ (click[c].token \in Tokens
                                            /\ row[click[c].token].state = "live")
    PROVE  ClickFollowsLink' /\ OneClickWins'
<1>1. ASSUME NEW d \in Clicks PROVE Follows(d)'
  BY <1>1, FollowsStill DEF MagicInv, ClickFollowsLink, Follows
<1>2. ClickFollowsLink'
  BY <1>1 DEF ClickFollowsLink, Follows
<1>3. ASSUME NEW d \in Clicks \ {c}, Holder(c)', Holder(d)' PROVE click'[c].token # click'[d].token
  <2>1. Holder(d) /\ click'[d] = click[d]
    BY <1>3 DEF Holder
  <2>2. CASE Holder(c)
    BY <1>3, <2>1, <2>2 DEF MagicInv, OneClickWins
  <2>3. CASE click[c].token \in Tokens /\ row[click[c].token].state = "live"
    BY <1>3, <2>1, <2>3, LiveIsFree
  <2> QED
    BY <1>3, <2>2, <2>3
<1>4. ASSUME NEW d \in Clicks, NEW e \in Clicks,
             Holder(d)', Holder(e)', click'[d].token = click'[e].token
      PROVE  d = e
  <2>1. CASE d # c /\ e # c
    <3>1. click'[d] = click[d] /\ click'[e] = click[e]
      BY <2>1
    <3> QED
      BY <1>4, <3>1 DEF MagicInv, OneClickWins, Holder
  <2> QED
    BY <1>3, <1>4, <2>1
<1> QED
  BY <1>2, <1>4 DEF OneClickWins

(* No click moves.                                                         *)
LEMMA NoneMoves ==
    ASSUME MagicInv, RowsLast, UNCHANGED click
    PROVE  ClickFollowsLink' /\ OneClickWins'
<1>1. ASSUME NEW d \in Clicks PROVE Follows(d)'
  BY <1>1, FollowsStill DEF MagicInv, ClickFollowsLink, Follows
<1> QED
  BY <1>1 DEF ClickFollowsLink, Follows, MagicInv, OneClickWins, Holder

(* Whatever is clicked and whatever races with it, one click of a link at  *)
(* most has its row.                                                       *)
LEMMA ClickStep ==
    ASSUME MagicInv, [MagicNext]_magicVars PROVE ClickFollowsLink' /\ OneClickWins'
<1> DEFINE Kept == ClickFollowsLink' /\ OneClickWins'
<1>a. /\ RowsLast /\ row \in [Tokens -> LinkRow] /\ click \in [Clicks -> ClickRow]
      /\ now \in Nat /\ \A c \in Clicks : Follows(c)
  BY RowHistory DEF MagicInv, MagicTypeOK, ClickRow, ClickFollowsLink, Follows
<1>1. ASSUME NEW c \in Clicks, NEW t \in Tokens \cup {NoToken}, OpenLink(c, t) PROVE Kept
  <2>1. /\ click'[c].step \in {"refused", "consuming"} /\ click'[c].token = t
        /\ click'[c].step = "consuming" => t \in Tokens
        /\ \A d \in Clicks \ {c} : click'[d] = click[d]
    BY <1>1, <1>a DEF OpenLink
  <2>2. click'[c].step = "consuming" => t \in Links'
    BY <1>1, <1>a DEF OpenLink, Links
  <2> QED
    BY <1>a, <2>1, <2>2, OneMoves DEF Follows, Holder, Winner
<1>2. ASSUME NEW c \in Clicks, ConsumeInMemory(c) PROVE Kept
  <2> DEFINE t == click[c].token
  <2>1. t \in Tokens /\ t \in Links /\ UNCHANGED mailbox
    BY <1>2, <1>a DEF ConsumeInMemory, Follows
  <2>2. CASE row[t].state = "live" /\ row[t].expiresAt > now
    <3>1. click' = SignedIn(c, row[t].email) /\ row' = Consumed(t)
      BY <1>2, <2>2 DEF ConsumeInMemory
    <3>2. /\ click'[c].step = "in" /\ click'[c].token = t
          /\ click'[c].email = row[t].email /\ click'[c].at = now
          /\ \A d \in Clicks \ {c} : click'[d] = click[d]
      BY <3>1, <1>a DEF SignedIn, ClickRow
    <3>3. row'[t].state = "consumed" /\ row'[t].expiresAt = row[t].expiresAt
      BY <3>1, <2>1, <1>a DEF Consumed, LinkRow
    <3>4. <<t, row[t].email>> \in mailbox'
      BY <2>1, LinkRowOfMail
    <3>5. Follows(c)'
      BY <1>a, <2>1, <2>2, <3>2, <3>3, <3>4 DEF Follows, Holder, Winner, LinkRow
    <3> QED
      BY <1>a, <2>1, <2>2, <3>2, <3>5, OneMoves
  <2>3. CASE ~(row[t].state = "live" /\ row[t].expiresAt > now)
    <3>1. click' = Refused(c)
      BY <1>2, <2>3 DEF ConsumeInMemory
    <3>2. click'[c].step = "refused" /\ \A d \in Clicks \ {c} : click'[d] = click[d]
      BY <3>1, <1>a DEF Refused, ClickRow
    <3> QED
      BY <1>a, <3>2, OneMoves DEF Follows, Holder, Winner
  <2> QED
    BY <2>2, <2>3
<1>3. ASSUME NEW c \in Clicks, ConsumeAtomically(c) PROVE Kept
  <2> DEFINE t == click[c].token
  <2>1. t \in Tokens /\ t \in Links /\ UNCHANGED mailbox
    BY <1>3, <1>a DEF ConsumeAtomically, Follows
  <2>2. CASE /\ row[t].state = "live" /\ row' = Consumed(t)
             /\ click' = [click EXCEPT ![c].step = "checking", ![c].email = row[t].email]
    <3>1. /\ click'[c].step = "checking" /\ click'[c].token = t
          /\ click'[c].email = row[t].email
          /\ \A d \in Clicks \ {c} : click'[d] = click[d]
      BY <2>2, <1>a DEF ClickRow
    <3>2. row'[t].state = "consumed"
      BY <2>1, <2>2, <1>a DEF Consumed, LinkRow
    <3>3. <<t, row[t].email>> \in mailbox'
      BY <2>1, LinkRowOfMail
    <3>4. Follows(c)'
      BY <2>1, <3>1, <3>2, <3>3 DEF Follows, Holder, Winner
    <3> QED
      BY <1>a, <2>1, <2>2, <3>1, <3>4, OneMoves
  <2>3. CASE click' = Refused(c)
    <3>1. click'[c].step = "refused" /\ \A d \in Clicks \ {c} : click'[d] = click[d]
      BY <2>3, <1>a DEF Refused, ClickRow
    <3> QED
      BY <1>a, <3>1, OneMoves DEF Follows, Holder, Winner
  <2> QED
    BY <1>3, <2>2, <2>3 DEF ConsumeAtomically
<1>4. ASSUME NEW c \in Clicks, CheckExpiry(c) PROVE Kept
  <2> DEFINE t == click[c].token
  <2>1. Holder(c) /\ t \in Tokens /\ UNCHANGED <<row, mailbox>>
    BY <1>4, <1>a DEF CheckExpiry, Holder, Follows
  <2>2. CASE row[t].expiresAt > now /\ click' = SignedIn(c, click[c].email)
    <3>1. /\ click'[c].step = "in" /\ click'[c].token = t
          /\ click'[c].email = click[c].email /\ click'[c].at = now
          /\ \A d \in Clicks \ {c} : click'[d] = click[d]
      BY <2>2, <1>a DEF SignedIn, ClickRow
    <3>2. Follows(c)'
      BY <1>a, <2>1, <2>2, <3>1 DEF Follows, Holder, Winner, LinkRow
    <3> QED
      BY <1>a, <2>1, <3>1, <3>2, OneMoves
  <2>3. CASE click' = [Refused(c) EXCEPT ![c].email = NoEmail]
    <3>1. click'[c].step = "refused" /\ \A d \in Clicks \ {c} : click'[d] = click[d]
      BY <2>3, <1>a DEF Refused, ClickRow
    <3> QED
      BY <1>a, <3>1, OneMoves DEF Follows, Holder, Winner
  <2> QED
    BY <1>4, <2>2, <2>3 DEF CheckExpiry
<1>5. CASE Restart
  <2>1. \A c \in Clicks : click'[c] = click[c] \/ click'[c].step = "refused"
    BY <1>5, <1>a DEF Restart, ClickRow
  <2>2. ASSUME NEW c \in Clicks PROVE Follows(c)'
    <3>1. CASE click'[c] = click[c]
      BY <3>1, <1>a, FollowsStill
    <3>2. CASE click'[c].step = "refused"
      BY <3>2 DEF Follows, Holder, Winner
    <3> QED
      BY <2>1, <3>1, <3>2
  <2>3. OneClickWins'
    BY <2>1 DEF MagicInv, OneClickWins, Holder
  <2> QED
    BY <2>2, <2>3 DEF ClickFollowsLink, Follows
<1>6. CASE UNCHANGED click
  BY <1>6, <1>a, NoneMoves
<1> QED
  BY <1>1, <1>2, <1>3, <1>4, <1>5, <1>6
     DEF MagicNext, magicVars, Build, Tick, StartSignIn, CreateToken, CreateFails, SendMail,
         Revoke, CleanupExpired

----------------------------------------------------------------------------
(* A sign-in link is good for one click, of its recipient, while it is     *)
(* valid, and a mailed link has its row (index.ts:203-328, store.ts).      *)
THEOREM LinkIsKept == MagicSpec => []LinkKept
<1>1. MagicInv /\ [MagicNext]_magicVars => MagicInv'
  BY MagicTypeStep, StoreStep, ClickStep DEF MagicInv
<1>2. MagicInv => LinkKept
  BY DEF MagicInv, LinkKept, ClickFollowsLink, Follows, UsedIsSpent, WinnerIsRecipient, Winner, Holder
<1> QED
  BY <1>1, <1>2, MagicInitInv, PTL DEF MagicSpec

----------------------------------------------------------------------------
(* SignInKept is not inductive: that an approval is spent by the callback  *)
(* that has its account, and that a callback past the checks is of the     *)
(* transaction the browser carried, are what a reloaded page or a second   *)
(* tab would have to break.                                                *)

(* The tables of the two kinds of row.                                     *)
IdpRows == [name : {"none", "google", "github"}, base : Urls, wantsEmail : BOOLEAN]
FlowRows == [step : {"idle", "rejected", "sent", "approved", "denied"},
             account : Accounts \cup {NoAccount}, pkce : BOOLEAN, spent : BOOLEAN]
CallbackRows == [flow : Flows \cup {NoFlow}, tx : Flows \cup {NoFlow},
                 step : {"idle", "discovering", "exchanging", "profile", "emails", "done",
                         "failed"},
                 account : Accounts \cup {NoAccount},
                 email : {"unknown", "public", "verified", "none"},
                 sentTo : Urls \cup {"nowhere"}]

OAuthTyped ==
    /\ idp \in IdpRows
    /\ cookie \in Flows \cup {NoFlow}
    /\ flow \in [Flows -> FlowRows]
    /\ callback \in [Callbacks -> CallbackRows]

(* An approval is somebody's, and no transaction starts before the wiring. *)
ApprovedBySomebody ==
    \A f \in Flows : /\ flow[f].step = "approved" => flow[f].account # NoAccount
                     /\ flow[f].step # "idle" => idp.name # "none"

(* The code of the callback has been redeemed for an account.              *)
Redeemed(c) == callback[c].account # NoAccount

(* A callback that got past the checks is of the transaction the browser   *)
(* carried, which has been approved.                                       *)
OnTransaction(c) ==
    callback[c].step \in {"discovering", "exchanging", "profile", "emails", "done"}
    \/ Redeemed(c) =>
        /\ callback[c].flow \in Flows /\ callback[c].tx = callback[c].flow
        /\ flow[callback[c].flow].step = "approved"
        /\ idp.name # "none"

(* Only what follows the exchange has an account, that of the transaction, *)
(* whose code is spent; the secret went to a safe endpoint.                *)
AfterExchange(c) ==
    /\ callback[c].step \in {"profile", "emails", "done"} => Redeemed(c)
    /\ callback[c].step \in {"idle", "discovering", "exchanging"} => ~Redeemed(c)
    /\ Redeemed(c) => /\ flow[callback[c].flow].spent
                      /\ callback[c].account = flow[callback[c].flow].account
                      /\ SafeUrl(callback[c].sentTo)
    /\ callback[c].step = "exchanging" /\ idp.name = "google" => SafeUrl(callback[c].sentTo)

(* An address was asked for where there is a right to one.                 *)
AddressAsked(c) ==
    callback[c].step = "done" /\ (idp.wantsEmail \/ idp.name = "google") =>
        callback[c].email # "unknown"

CallbackKept == \A c \in Callbacks : OnTransaction(c) /\ AfterExchange(c) /\ AddressAsked(c)

(* A code is redeemed by one callback.                                     *)
OneRedeems ==
    \A c, d \in Callbacks :
        Redeemed(c) /\ Redeemed(d) /\ callback[c].flow = callback[d].flow => c = d

OAuthIInv == OAuthTyped /\ ApprovedBySomebody /\ CallbackKept /\ OneRedeems

(* A browser that has started nothing.                                     *)
LEMMA OAuthInitHolds == OAuthInit => OAuthIInv
BY OAuthAssumption
   DEF OAuthInit, OAuthIInv, OAuthTyped, ApprovedBySomebody, CallbackKept, OneRedeems,
       OnTransaction, AfterExchange, AddressAsked, Redeemed, NoCallback, IdpRows, FlowRows,
       CallbackRows, Urls

(* What the type says of each field.                                       *)
LEMMA OAuthFacts ==
    ASSUME OAuthTyped
    PROVE  /\ idp.name \in {"none", "google", "github"} /\ idp.base \in Urls
           /\ idp.wantsEmail \in BOOLEAN
           /\ \A f \in Flows :
                 /\ flow[f].step \in {"idle", "rejected", "sent", "approved", "denied"}
                 /\ flow[f].account \in Accounts \cup {NoAccount}
                 /\ flow[f].pkce \in BOOLEAN /\ flow[f].spent \in BOOLEAN
           /\ \A c \in Callbacks :
                 /\ callback[c].flow \in Flows \cup {NoFlow}
                 /\ callback[c].tx \in Flows \cup {NoFlow}
                 /\ callback[c].account \in Accounts \cup {NoAccount}
                 /\ callback[c].email \in {"unknown", "public", "verified", "none"}
                 /\ callback[c].sentTo \in Urls \cup {"nowhere"}
BY DEF OAuthTyped, IdpRows, FlowRows, CallbackRows

(* Approvals, their accounts and spent codes stay; so does the provider.   *)
FlowsLast ==
    /\ \A f \in Flows :
          /\ flow[f].step = "approved" =>
                flow'[f].step = "approved" /\ flow'[f].account = flow[f].account
          /\ flow[f].spent => flow'[f].spent
    /\ idp.name # "none" => idp' = idp

(* What holds of a callback that a step leaves alone goes on holding.      *)
LEMMA CallbackStill ==
    ASSUME OAuthTyped, CallbackKept, FlowsLast, NEW d \in Callbacks, callback'[d] = callback[d]
    PROVE  OnTransaction(d)' /\ AfterExchange(d)' /\ AddressAsked(d)'
<1>1. OnTransaction(d) /\ AfterExchange(d) /\ AddressAsked(d)
  BY DEF CallbackKept
<1>2. Redeemed(d)' <=> Redeemed(d)
  BY DEF Redeemed
<1>3. OnTransaction(d)'
  BY <1>1, <1>2 DEF OnTransaction, FlowsLast
<1>4. AfterExchange(d)'
  BY <1>1, <1>2 DEF AfterExchange, OnTransaction, FlowsLast
<1>5. AddressAsked(d)'
  BY <1>1, <1>2 DEF AddressAsked, AfterExchange, OnTransaction, FlowsLast
<1> QED
  BY <1>3, <1>4, <1>5

(* A step of no callback.                                                  *)
LEMMA CallbacksRest ==
    ASSUME OAuthIInv, FlowsLast, UNCHANGED callback
    PROVE  CallbackKept' /\ OneRedeems'
<1>1. CallbackKept'
  BY CallbackStill DEF OAuthIInv, CallbackKept
<1>2. OneRedeems'
  BY DEF OAuthIInv, OneRedeems, Redeemed
<1> QED
  BY <1>1, <1>2

(* A step of one callback, which redeems no code another one has redeemed. *)
LEMMA OneCallback ==
    ASSUME OAuthIInv, FlowsLast, NEW c \in Callbacks, NEW entry \in CallbackRows,
           callback' = [callback EXCEPT ![c] = entry],
           OnTransaction(c)', AfterExchange(c)', AddressAsked(c)',
           entry.account # NoAccount =>
               \/ Redeemed(c) /\ entry.flow = callback[c].flow
               \/ \A d \in Callbacks \ {c} : ~(Redeemed(d) /\ callback[d].flow = entry.flow)
    PROVE  callback' \in [Callbacks -> CallbackRows] /\ CallbackKept' /\ OneRedeems'
<1>1. callback \in [Callbacks -> CallbackRows]
  BY DEF OAuthIInv, OAuthTyped
<1>2. callback'[c] = entry /\ \A d \in Callbacks \ {c} : callback'[d] = callback[d]
  BY <1>1
<1>3. CallbackKept'
  BY <1>2, CallbackStill DEF OAuthIInv, CallbackKept
<1>4. OneRedeems'
  BY <1>2 DEF OAuthIInv, OneRedeems, Redeemed
<1> QED
  BY <1>1, <1>3, <1>4

----------------------------------------------------------------------------
(* Which provider is wired is decided before the first transaction.        *)
LEMMA WireKeeps ==
    ASSUME OAuthIInv, NEW name \in {"google", "github"}, NEW base \in Urls, NEW w \in BOOLEAN,
           WireIdp(name, base, w)
    PROVE  OAuthIInv'
<1>1. OAuthTyped'
  BY DEF WireIdp, OAuthIInv, OAuthTyped, IdpRows
<1>2. FlowsLast
  BY DEF WireIdp, FlowsLast
<1>3. CallbackKept' /\ OneRedeems'
  BY <1>2, CallbacksRest DEF WireIdp
<1> QED
  BY <1>1, <1>3 DEF WireIdp, OAuthIInv, ApprovedBySomebody

(* A transaction that starts is not approved yet.                          *)
LEMMA StartKeeps ==
    ASSUME OAuthIInv, NEW f \in Flows, NEW pkce \in BOOLEAN, NEW endpoint,
           StartFlow(f, pkce, endpoint)
    PROVE  OAuthIInv'
<1> DEFINE sent == [flow[f] EXCEPT !.step = "sent", !.pkce = pkce]
           rejected == [flow[f] EXCEPT !.step = "rejected"]
<1>1. flow \in [Flows -> FlowRows]
  BY DEF OAuthIInv, OAuthTyped
<1>2. /\ sent \in FlowRows /\ sent.step = "sent" /\ sent.spent = flow[f].spent
      /\ rejected \in FlowRows /\ rejected.step = "rejected" /\ rejected.spent = flow[f].spent
  BY <1>1 DEF FlowRows
<1>3. flow' = [flow EXCEPT ![f] = sent] \/ flow' = [flow EXCEPT ![f] = rejected]
  BY <1>1 DEF StartFlow
<1> HIDE DEF sent, rejected
<1>4. /\ flow' \in [Flows -> FlowRows]
      /\ flow'[f].step \in {"sent", "rejected"} /\ flow'[f].spent = flow[f].spent
      /\ \A g \in Flows \ {f} : flow'[g] = flow[g]
  BY <1>1, <1>2, <1>3
<1>5. OAuthTyped'
  BY <1>4 DEF StartFlow, OAuthIInv, OAuthTyped
<1>6. FlowsLast
  BY <1>4 DEF StartFlow, FlowsLast
<1>7. ApprovedBySomebody'
  BY <1>4 DEF StartFlow, ApprovedBySomebody, OAuthIInv
<1>8. CallbackKept' /\ OneRedeems'
  BY <1>6, CallbacksRest DEF StartFlow
<1> QED
  BY <1>5, <1>7, <1>8 DEF OAuthIInv

(* The holder's answer to a transaction that was waiting for it.           *)
LEMMA ConsentKeeps ==
    ASSUME OAuthIInv, NEW f \in Flows, NEW a \in Accounts \cup {NoAccount}, Consent(f, a)
    PROVE  OAuthIInv'
<1> DEFINE step == IF a = NoAccount THEN "denied" ELSE "approved"
           told == [flow[f] EXCEPT !.step = step, !.account = a]
<1>1. flow \in [Flows -> FlowRows]
  BY DEF OAuthIInv, OAuthTyped
<1>2. told \in FlowRows /\ told.step = step /\ told.account = a /\ told.spent = flow[f].spent
  BY <1>1 DEF FlowRows
<1>3. flow' = [flow EXCEPT ![f] = told]
  BY <1>1 DEF Consent
<1> HIDE DEF told
<1>4. /\ flow' \in [Flows -> FlowRows] /\ flow'[f] = told
      /\ \A g \in Flows \ {f} : flow'[g] = flow[g]
  BY <1>1, <1>2, <1>3
<1>5. OAuthTyped'
  BY <1>4 DEF Consent, OAuthIInv, OAuthTyped
<1>6. FlowsLast
  BY <1>2, <1>4 DEF Consent, FlowsLast
<1>7. ApprovedBySomebody'
  BY <1>2, <1>4 DEF Consent, ApprovedBySomebody, OAuthIInv
<1>8. CallbackKept' /\ OneRedeems'
  BY <1>6, CallbacksRest DEF Consent
<1> QED
  BY <1>5, <1>7, <1>8 DEF OAuthIInv

----------------------------------------------------------------------------
(* Past the checks, the flow of the callback is the browser's transaction. *)
LEMMA ArriveKeeps ==
    ASSUME OAuthIInv, NEW c \in Callbacks, NEW f \in Flows, Arrive(c, f)
    PROVE  OAuthIInv'
<1> DEFINE st == IF ~AcceptsCallback(f, cookie) THEN "failed"
                 ELSE IF idp.name = "google" THEN "discovering" ELSE "exchanging"
           entry == [NoCallback EXCEPT !.flow = f, !.tx = cookie, !.step = st]
<1>1. /\ entry \in CallbackRows /\ entry.flow = f /\ entry.tx = cookie /\ entry.step = st
      /\ entry.account = NoAccount /\ entry.email = "unknown"
  BY DEF NoCallback, CallbackRows, OAuthIInv, OAuthTyped
<1>2. callback' = [callback EXCEPT ![c] = entry] /\ UNCHANGED <<idp, cookie, flow>>
  BY DEF Arrive
<1> HIDE DEF entry
<1>3. callback'[c] = entry
  BY <1>2 DEF OAuthIInv, OAuthTyped
<1>4. FlowsLast
  BY <1>2 DEF FlowsLast
<1>5. AcceptsCallback(f, cookie) =>
         /\ flow[f].step = "approved" /\ cookie = f /\ cookie \in Flows
  BY DEF AcceptsCallback, StateMatches
<1>6. st # "failed" => AcceptsCallback(f, cookie)
  OBVIOUS
<1>7. idp.name # "none"
  BY DEF Arrive, OAuthIInv, ApprovedBySomebody
<1>8. OnTransaction(c)' /\ AfterExchange(c)' /\ AddressAsked(c)'
  BY <1>1, <1>2, <1>3, <1>5, <1>6, <1>7
     DEF OnTransaction, AfterExchange, AddressAsked, Redeemed
<1>9. callback' \in [Callbacks -> CallbackRows] /\ CallbackKept' /\ OneRedeems'
  BY <1>1, <1>2, <1>4, <1>8, OneCallback
<1> QED
  BY <1>2, <1>9 DEF OAuthIInv, OAuthTyped, ApprovedBySomebody

(* The secret goes on to a safe endpoint or not at all.                    *)
LEMMA DiscoverKeeps ==
    ASSUME OAuthIInv, NEW c \in Callbacks, NEW endpoint \in Urls, Discover(c, endpoint)
    PROVE  OAuthIInv'
<1> DEFINE safe == SafeUrl(idp.base) /\ SafeUrl(endpoint)
           entry == IF safe THEN [callback[c] EXCEPT !.step = "exchanging", !.sentTo = endpoint]
                     ELSE [callback[c] EXCEPT !.step = "failed"]
<1>0. callback[c] \in CallbackRows /\ callback \in [Callbacks -> CallbackRows]
  BY DEF OAuthIInv, OAuthTyped
<1>1. /\ entry \in CallbackRows /\ entry.flow = callback[c].flow /\ entry.tx = callback[c].tx
      /\ entry.account = callback[c].account
      /\ (entry.step = "exchanging" /\ SafeUrl(entry.sentTo)) \/ entry.step = "failed"
  BY <1>0 DEF CallbackRows
<1>2. callback' = [callback EXCEPT ![c] = entry] /\ UNCHANGED <<idp, cookie, flow>>
  BY <1>0 DEF Discover
<1> HIDE DEF entry
<1>3. callback'[c] = entry
  BY <1>0, <1>2
<1>4. FlowsLast
  BY <1>2 DEF FlowsLast
<1>5. OnTransaction(c) /\ AfterExchange(c) /\ callback[c].step = "discovering"
  BY DEF Discover, OAuthIInv, CallbackKept
<1>6. ~Redeemed(c) /\ entry.account = NoAccount
  BY <1>1, <1>5 DEF Redeemed, AfterExchange
<1>7. OnTransaction(c)' /\ AfterExchange(c)' /\ AddressAsked(c)'
  BY <1>1, <1>2, <1>3, <1>5, <1>6
     DEF OnTransaction, AfterExchange, AddressAsked, Redeemed
<1>8. callback' \in [Callbacks -> CallbackRows] /\ CallbackKept' /\ OneRedeems'
  BY <1>1, <1>2, <1>4, <1>6, <1>7, OneCallback
<1> QED
  BY <1>2, <1>8 DEF OAuthIInv, OAuthTyped, ApprovedBySomebody

(* The code is redeemed, for the account of the transaction, by the first  *)
(* callback that presents it.                                              *)
LEMMA ExchangeKeeps ==
    ASSUME OAuthIInv, NEW c \in Callbacks, NEW usable \in BOOLEAN, Exchange(c, usable)
    PROVE  OAuthIInv'
<1> DEFINE f == callback[c].flow
           good == Redeems(c) /\ usable
           st == IF good THEN "profile" ELSE "failed"
           acc == IF good THEN flow[f].account ELSE NoAccount
           to == IF idp.name = "github" THEN "https" ELSE callback[c].sentTo
           entry == [callback[c] EXCEPT !.step = st, !.account = acc, !.sentTo = to]
           spent == [flow[f] EXCEPT !.spent = flow[f].spent \/ Redeems(c)]
<1>0. /\ callback[c] \in CallbackRows /\ callback \in [Callbacks -> CallbackRows]
      /\ flow \in [Flows -> FlowRows]
  BY DEF OAuthIInv, OAuthTyped
<1>1. /\ OnTransaction(c) /\ AfterExchange(c) /\ callback[c].step = "exchanging"
      /\ f \in Flows /\ flow[f].step = "approved" /\ callback[c].tx = f
      /\ idp.name # "none"
  BY DEF Exchange, OAuthIInv, CallbackKept, OnTransaction
<1>2. good \in BOOLEAN /\ Redeems(c) \in BOOLEAN
  BY DEF Redeems
<1>3. /\ entry \in CallbackRows /\ entry.flow = f /\ entry.tx = f /\ entry.step = st
      /\ entry.account = acc /\ entry.sentTo = to
  <2>1. /\ st \in {"profile", "failed"} /\ acc \in Accounts \cup {NoAccount}
        /\ to \in Urls \cup {"nowhere"}
    BY <1>0, <1>1, OAuthFacts DEF OAuthIInv, Urls
  <2> HIDE DEF st, acc, to
  <2> QED
    BY <1>0, <1>1, <2>1 DEF CallbackRows
<1>4. /\ spent \in FlowRows /\ spent.step = flow[f].step /\ spent.account = flow[f].account
      /\ flow[f].spent => spent.spent
      /\ Redeems(c) => spent.spent
  BY <1>0, <1>1, <1>2 DEF FlowRows
<1>5. /\ callback' = [callback EXCEPT ![c] = entry] /\ flow' = [flow EXCEPT ![f] = spent]
      /\ UNCHANGED <<idp, cookie>>
  BY <1>0, <1>1 DEF Exchange
<1> HIDE DEF entry, spent
<1>6. callback'[c] = entry /\ flow' \in [Flows -> FlowRows] /\ flow'[f] = spent
      /\ \A g \in Flows \ {f} : flow'[g] = flow[g]
  BY <1>0, <1>1, <1>3, <1>4, <1>5
<1>7. FlowsLast
  BY <1>4, <1>5, <1>6 DEF FlowsLast
<1>8. good => ~flow[f].spent /\ flow[f].account # NoAccount /\ SafeUrl(to)
  BY <1>1, OAuthFacts DEF Redeems, OAuthIInv, ApprovedBySomebody, AfterExchange, SafeUrl
<1>9. OnTransaction(c)' /\ AfterExchange(c)' /\ AddressAsked(c)'
  BY <1>1, <1>3, <1>4, <1>5, <1>6, <1>8
     DEF OnTransaction, AfterExchange, AddressAsked, Redeemed
<1>10. good => \A d \in Callbacks \ {c} : ~(Redeemed(d) /\ callback[d].flow = f)
  BY <1>8 DEF OAuthIInv, CallbackKept, AfterExchange
<1>11. callback' \in [Callbacks -> CallbackRows] /\ CallbackKept' /\ OneRedeems'
  BY <1>3, <1>5, <1>7, <1>9, <1>10, OneCallback
<1>12. ApprovedBySomebody'
  BY <1>4, <1>5, <1>6 DEF OAuthIInv, ApprovedBySomebody
<1> QED
  BY <1>5, <1>6, <1>11, <1>12 DEF OAuthIInv, OAuthTyped

(* After the exchange a callback keeps its account, flow and endpoint, and *)
(* is done with an address where there is a right to one.                  *)
LEMMA ProfileStep ==
    ASSUME OAuthIInv, NEW c \in Callbacks, NEW st \in {"emails", "done", "failed"},
           NEW em \in {"unknown", "public", "verified", "none"},
           callback[c].step \in {"profile", "emails"},
           callback' = [callback EXCEPT ![c].step = st, ![c].email = em],
           UNCHANGED <<idp, cookie, flow>>,
           st = "done" /\ (idp.wantsEmail \/ idp.name = "google") => em # "unknown"
    PROVE  OAuthIInv'
<1> DEFINE entry == [callback[c] EXCEPT !.step = st, !.email = em]
<1>0. callback[c] \in CallbackRows /\ callback \in [Callbacks -> CallbackRows]
  BY DEF OAuthIInv, OAuthTyped
<1>1. /\ entry \in CallbackRows /\ entry.flow = callback[c].flow /\ entry.tx = callback[c].tx
      /\ entry.account = callback[c].account /\ entry.sentTo = callback[c].sentTo
      /\ entry.step = st /\ entry.email = em
  BY <1>0 DEF CallbackRows
<1>2. callback' = [callback EXCEPT ![c] = entry]
  BY <1>0
<1> HIDE DEF entry
<1>3. callback'[c] = entry
  BY <1>0, <1>2
<1>4. FlowsLast
  BY DEF FlowsLast
<1>5. OnTransaction(c) /\ AfterExchange(c) /\ Redeemed(c)
  BY DEF OAuthIInv, CallbackKept, AfterExchange
<1>6. OnTransaction(c)' /\ AfterExchange(c)' /\ AddressAsked(c)'
  BY <1>1, <1>3, <1>5
     DEF OnTransaction, AfterExchange, AddressAsked, Redeemed
<1>7. callback' \in [Callbacks -> CallbackRows] /\ CallbackKept' /\ OneRedeems'
  BY <1>1, <1>2, <1>4, <1>5, <1>6, OneCallback
<1> QED
  BY <1>7 DEF OAuthIInv, OAuthTyped, ApprovedBySomebody

(* Every action, and the stuttering step, keeps the invariant.             *)
LEMMA OAuthStepHolds == ASSUME OAuthIInv, [OAuthNext]_oauthVars PROVE OAuthIInv'
<1>1. ASSUME NEW base \in Urls, WireIdp("google", base, FALSE) PROVE OAuthIInv'
  BY <1>1, WireKeeps
<1>2. ASSUME NEW w \in BOOLEAN, WireIdp("github", "https", w) PROVE OAuthIInv'
  BY <1>2, WireKeeps DEF Urls
<1>3. ASSUME NEW f \in Flows, NEW pkce \in BOOLEAN, NEW endpoint \in Urls,
             StartFlow(f, pkce, endpoint)
      PROVE  OAuthIInv'
  BY <1>3, StartKeeps
<1>4. ASSUME NEW f \in Flows, NEW a \in Accounts \cup {NoAccount}, Consent(f, a)
      PROVE  OAuthIInv'
  BY <1>4, ConsentKeeps
<1>5. ASSUME NEW c \in Callbacks, NEW f \in Flows, Arrive(c, f) PROVE OAuthIInv'
  BY <1>5, ArriveKeeps
<1>6. ASSUME NEW c \in Callbacks, NEW endpoint \in Urls, Discover(c, endpoint) PROVE OAuthIInv'
  BY <1>6, DiscoverKeeps
<1>7. ASSUME NEW c \in Callbacks, NEW usable \in BOOLEAN, Exchange(c, usable) PROVE OAuthIInv'
  BY <1>7, ExchangeKeeps
<1>8. ASSUME NEW c \in Callbacks, NEW endpoint \in Urls, NEW whole \in BOOLEAN,
             GoogleProfile(c, endpoint, whole)
      PROVE  OAuthIInv'
  <2> DEFINE good == SafeUrl(endpoint) /\ whole
             st == IF good THEN "done" ELSE "failed"
             em == IF good THEN "public" ELSE "unknown"
  <2>1. /\ st \in {"emails", "done", "failed"}
        /\ em \in {"unknown", "public", "verified", "none"}
        /\ st = "done" => em # "unknown"
    OBVIOUS
  <2>2. /\ callback' = [callback EXCEPT ![c].step = st, ![c].email = em]
        /\ callback[c].step = "profile" /\ UNCHANGED <<idp, cookie, flow>>
    BY <1>8 DEF GoogleProfile
  <2> HIDE DEF st, em
  <2> QED
    BY <2>1, <2>2, ProfileStep
<1>9. ASSUME NEW c \in Callbacks, NEW public \in BOOLEAN, NEW whole \in BOOLEAN,
             GitHubProfile(c, public, whole)
      PROVE  OAuthIInv'
  <2> DEFINE st == IF ~whole THEN "failed"
                   ELSE IF idp.wantsEmail /\ ~public THEN "emails" ELSE "done"
             em == IF whole /\ public THEN "public"
                   ELSE IF whole /\ ~idp.wantsEmail THEN "none" ELSE "unknown"
  <2>1. /\ st \in {"emails", "done", "failed"}
        /\ em \in {"unknown", "public", "verified", "none"}
        /\ st = "done" => em # "unknown"
    OBVIOUS
  <2>2. /\ callback' = [callback EXCEPT ![c].step = st, ![c].email = em]
        /\ callback[c].step = "profile" /\ UNCHANGED <<idp, cookie, flow>>
    BY <1>9 DEF GitHubProfile
  <2> HIDE DEF st, em
  <2> QED
    BY <2>1, <2>2, ProfileStep
<1>10. ASSUME NEW c \in Callbacks, NEW entries \in EmailLists, NEW answered \in BOOLEAN,
              GitHubEmails(c, entries, answered)
       PROVE  OAuthIInv'
  <2> DEFINE st == IF answered THEN "done" ELSE "failed"
             em == IF answered THEN ChosenEmail(entries) ELSE callback[c].email
  <2>1. /\ st \in {"emails", "done", "failed"}
        /\ em \in {"unknown", "public", "verified", "none"}
        /\ st = "done" => em # "unknown"
    BY OAuthFacts DEF ChosenEmail, OAuthIInv
  <2>2. /\ callback' = [callback EXCEPT ![c].step = st, ![c].email = em]
        /\ callback[c].step = "emails" /\ UNCHANGED <<idp, cookie, flow>>
    BY <1>10 DEF GitHubEmails, OAuthIInv, OAuthTyped, CallbackRows
  <2> HIDE DEF st, em
  <2> QED
    BY <2>1, <2>2, ProfileStep
<1>11. CASE UNCHANGED oauthVars
  <2>1. FlowsLast
    BY <1>11 DEF FlowsLast, oauthVars
  <2> QED
    BY <1>11, <2>1, CallbacksRest DEF oauthVars, OAuthIInv, OAuthTyped, ApprovedBySomebody
<1> QED
  BY <1>1, <1>2, <1>3, <1>4, <1>5, <1>6, <1>7, <1>8, <1>9, <1>10, <1>11 DEF OAuthNext

(* The invariant gives what a sign-in promises, part by part.              *)
LEMMA OAuthIInvSuffices == ASSUME OAuthIInv PROVE SignInKept
<1>1. OAuthTypeOK
  BY OAuthFacts DEF OAuthIInv, OAuthTypeOK, OAuthTyped, CallbackRows
<1>2. IdentityOfTransaction
  BY DEF OAuthIInv, IdentityOfTransaction, CallbackKept, AfterExchange, OnTransaction,
         Redeemed, SignedUp
<1>3. OneSignInPerApproval
  BY DEF OAuthIInv, OneSignInPerApproval, CallbackKept, AfterExchange, OneRedeems, SignedUp
<1>4. SecretStaysSafe
  BY DEF OAuthIInv, SecretStaysSafe, CallbackKept, AfterExchange, Redeemed
<1>5. EmailIsVerified
  BY OAuthFacts DEF OAuthIInv, EmailIsVerified, CallbackKept, AddressAsked, SignedUp
<1> QED
  BY <1>1, <1>2, <1>3, <1>4, <1>5 DEF SignInKept

(* The identity that comes out is that of the account that approved the    *)
(* transaction the browser carried, an approval signs in once, the secret  *)
(* stays on safe endpoints, and no address from the list is unverified     *)
(* (auth-github index.ts:171-176, 264-293; auth-google index.ts:221-239).  *)
THEOREM SignInIsKept == OAuthSpec => []SignInKept
<1>1. OAuthIInv /\ [OAuthNext]_oauthVars => OAuthIInv'
  BY OAuthStepHolds
<1>2. OAuthIInv => SignInKept
  BY OAuthIInvSuffices
<1> QED
  BY <1>1, <1>2, OAuthInitHolds, PTL DEF OAuthSpec

----------------------------------------------------------------------------
(* plugin-voice, for any number of recordings and of calls of speak().     *)
(* First the record button: whatever the browser and the provider answer,  *)
(* and in whatever order, a live microphone is the one the recorder would  *)
(* release, and the user hears of each recording once.  Then the player:   *)
(* one voice at a time.                                                    *)

(* RecorderKept is not inductive: that a stop, a request to the route and  *)
(* a live track are all the last recording's, and that the bar shows where *)
(* that one is, keep a late event from answering another recording.        *)

(* A MediaRecorder that holds no microphone.                               *)
Over == {"none", "inactive"}

(* Only the last recording is alive; those before it have been answered.   *)
OnlyLastLives ==
    /\ \A r \in Recordings : r < last => answers[r] = 1 /\ media[r] \in Over
    /\ \A r \in Recordings : r > last => answers[r] = 0 /\ media[r] = "none"
    /\ last # 0 => answers[last] \in {0, 1}
    /\ last # 0 /\ answers[last] = 1 => media[last] \in Over

(* A live track is the last recording's, it is the stream the recorder     *)
(* would release, and the recorder either runs or waits for its end.       *)
TracksHeld ==
    /\ tracks \subseteq {rec.stream} /\ tracks \subseteq {last}
    /\ tracks # {} => media[last] = "recording" \/ (media[last] = "ending" /\ rec.stopping)

(* stop() waits for the end of the last recording, the route for the bytes *)
(* of one that has ended.                                                  *)
WaitsForLast ==
    /\ rec.stopping => last # 0 /\ media[last] = "ending"
    /\ post.step # "none" => last # 0 /\ media[last] = "inactive" /\ answers[last] = 0

(* What the bar shows, while it is on the page, is where the recording is. *)
BarFollows ==
    bar.mounted =>
        /\ bar.phase \in {"idle", "error"} =>
              rec.state # "recording" /\ (last # 0 => answers[last] = 1)
        /\ bar.phase = "requesting" =>
              rec.state # "recording" /\ Asking
        /\ bar.phase = "recording" =>
              /\ last # 0 /\ answers[last] = 0 /\ media[last] # "none"
              /\ post.step = "none" /\ ~rec.stopping /\ rec.stream = last
              /\ rec.state = "recording" <=> media[last] \in {"recording", "ending"}
        /\ bar.phase = "processing" =>
              rec.state # "recording" /\ last # 0 /\ (rec.stopping \/ post.step # "none")

VoiceIInv == VoiceTypeOK /\ OnlyLastLives /\ TracksHeld /\ WaitsForLast /\ BarFollows

(* The states of the bar and of the recorder.                              *)
Phases == {"idle", "requesting", "recording", "processing", "error"}
RecStates == {"idle", "requesting", "recording", "processing", "stopped"}
Bars == [phase : Phases, mounted : BOOLEAN, held : BOOLEAN]
Recs == [state : RecStates, stream : Recordings \cup {0}, stopping : BOOLEAN]

(* What the type says of each field and of each recording.                *)
LEMMA VoiceFacts ==
    ASSUME VoiceTypeOK
    PROVE  /\ last \in Nat /\ (last # 0 => last \in Recordings)
           /\ bar.phase \in {"idle", "requesting", "recording", "processing", "error"}
           /\ bar.mounted \in BOOLEAN /\ bar.held \in BOOLEAN
           /\ rec.state \in {"idle", "requesting", "recording", "processing", "stopped"}
           /\ rec.stream \in Recordings \cup {0} /\ rec.stopping \in BOOLEAN
           /\ \A r \in Recordings : r \in Nat /\ r # 0 /\ r <= MaxRecordings
                                    /\ answers[r] \in Nat
                                    /\ media[r] \in {"none", "recording", "ending", "inactive"}
BY VoiceAssumption DEF VoiceTypeOK, Recordings, NoStream

(* What the actions write into the bar is a bar.                          *)
LEMMA BarEdit ==
    ASSUME NEW b \in Bars, NEW p \in Phases, NEW h \in BOOLEAN, NEW m \in BOOLEAN
    PROVE  /\ [b EXCEPT !.phase = p] \in Bars
           /\ [b EXCEPT !.phase = p, !.held = h] \in Bars
           /\ [b EXCEPT !.held = h] \in Bars
           /\ [b EXCEPT !.mounted = m, !.held = h] \in Bars
BY DEF Phases, Bars

(* What the actions write into the recorder is a recorder.                *)
LEMMA RecEdit ==
    ASSUME NEW c \in Recs, NEW st \in RecStates, NEW w \in BOOLEAN, NEW k \in Recordings \cup {0}
    PROVE  /\ [c EXCEPT !.state = st] \in Recs
           /\ [c EXCEPT !.state = st, !.stopping = w] \in Recs
           /\ [c EXCEPT !.stream = k, !.state = st] \in Recs
           /\ [c EXCEPT !.state = st, !.stopping = w, !.stream = k] \in Recs
           /\ [state |-> st, stream |-> k, stopping |-> w] \in Recs
BY DEF RecStates, Recs

(* A new recording is asked for, or refused, when the last one is answered.*)
LEMMA ClickStartKeeps == ASSUME VoiceIInv, NEW browser, ClickStart(browser) PROVE VoiceIInv'
<1> USE VoiceAssumption, VoiceFacts DEF VoiceIInv, ClickStart,
           Told, Surface, ReleasedTracks, ReleasedMedia, NoPost, NoStream, Over
<1>1. VoiceTypeOK'
  <2>0. bar \in Bars /\ rec \in Recs
    BY DEF VoiceTypeOK, Bars, Recs, Phases, RecStates
  <2>1. bar' \in Bars
    BY <2>0, BarEdit DEF Phases
  <2>2. rec' \in Recs
    BY <2>0, RecEdit DEF RecStates
  <2>3. media' \in [Recordings -> {"none", "recording", "ending", "inactive"}]
    BY DEF VoiceTypeOK
  <2>4. answers' \in [Recordings -> Nat]
    BY DEF VoiceTypeOK, Asking, WaitsForLast, Recordings
  <2>5. tracks' \subseteq Recordings /\ last' \in Recordings \cup {0}
    BY DEF VoiceTypeOK, Recordings, Asking
  <2>6. post'.step \in {"none", "sent", "upstream", "answered"}
    BY DEF VoiceTypeOK
  <2> QED
    BY <2>1, <2>2, <2>3, <2>4, <2>5, <2>6 DEF VoiceTypeOK, Phases, RecStates, Bars, Recs
<1>2. OnlyLastLives'
  BY DEF VoiceTypeOK, OnlyLastLives, TracksHeld, WaitsForLast, BarFollows, Asking, Recordings
<1>3. TracksHeld'
  BY DEF VoiceTypeOK, OnlyLastLives, TracksHeld, WaitsForLast, BarFollows, Asking, Recordings
<1>4. WaitsForLast'
  BY DEF VoiceTypeOK, OnlyLastLives, TracksHeld, WaitsForLast, BarFollows, Asking, Recordings
<1>5. BarFollows'
  <2>1. CASE SecureContext(browser)
    <3>1. bar'.phase = "requesting" /\ bar'.mounted = bar.mounted /\ rec'.state # "recording"
      BY <2>1 DEF VoiceTypeOK
    <3>2. last' # 0 /\ media'[last'] = "none" /\ answers'[last'] = 0
      BY <2>1 DEF OnlyLastLives, Recordings
    <3> QED
      BY <3>1, <3>2 DEF BarFollows, Asking
  <2>2. CASE ~SecureContext(browser)
    <3>1. bar'.phase = "error" /\ bar'.mounted = bar.mounted /\ rec' = rec
      BY <2>2 DEF VoiceTypeOK
    <3>2. last' # 0 /\ answers'[last'] = 1
      BY <2>2 DEF OnlyLastLives, Recordings, VoiceTypeOK
    <3> QED
      BY <3>1, <3>2 DEF BarFollows, Asking
  <2> QED
    BY <2>1, <2>2
<1> QED
  BY <1>1, <1>2, <1>3, <1>4, <1>5

(* A cleared error leaves the recordings as they are.                     *)
LEMMA ClickRetryKeeps == ASSUME VoiceIInv, ClickRetry PROVE VoiceIInv'
<1> USE VoiceAssumption, VoiceFacts DEF VoiceIInv, ClickRetry,
           Told, Surface, ReleasedTracks, ReleasedMedia, NoPost, NoStream, Over
<1>1. VoiceTypeOK'
  BY DEF VoiceTypeOK, OnlyLastLives, TracksHeld, WaitsForLast, BarFollows, Asking, Recordings
<1>2. OnlyLastLives'
  BY DEF VoiceTypeOK, OnlyLastLives, TracksHeld, WaitsForLast, BarFollows, Asking, Recordings
<1>3. TracksHeld'
  BY DEF VoiceTypeOK, OnlyLastLives, TracksHeld, WaitsForLast, BarFollows, Asking, Recordings
<1>4. WaitsForLast'
  BY DEF VoiceTypeOK, OnlyLastLives, TracksHeld, WaitsForLast, BarFollows, Asking, Recordings
<1>5. BarFollows'
  BY DEF VoiceTypeOK, OnlyLastLives, TracksHeld, WaitsForLast, BarFollows, Asking, Recordings
<1> QED
  BY <1>1, <1>2, <1>3, <1>4, <1>5

(* The stream of the last recording is the one the recorder holds.        *)
LEMMA GrantMicKeeps == ASSUME VoiceIInv, GrantMic PROVE VoiceIInv'
<1> USE VoiceAssumption, VoiceFacts DEF VoiceIInv, GrantMic,
           Told, Surface, ReleasedTracks, ReleasedMedia, NoPost, NoStream, Over
<1>1. VoiceTypeOK'
  BY DEF VoiceTypeOK, OnlyLastLives, TracksHeld, WaitsForLast, BarFollows, Asking, Recordings
<1>2. OnlyLastLives'
  BY DEF VoiceTypeOK, OnlyLastLives, TracksHeld, WaitsForLast, BarFollows, Asking, Recordings
<1>3. TracksHeld'
  BY DEF VoiceTypeOK, OnlyLastLives, TracksHeld, WaitsForLast, BarFollows, Asking, Recordings
<1>4. WaitsForLast'
  BY DEF VoiceTypeOK, OnlyLastLives, TracksHeld, WaitsForLast, BarFollows, Asking, Recordings
<1>5. BarFollows'
  BY DEF VoiceTypeOK, OnlyLastLives, TracksHeld, WaitsForLast, BarFollows, Asking, Recordings
<1> QED
  BY <1>1, <1>2, <1>3, <1>4, <1>5

(* A recorder that cannot start answers the recording it was for.         *)
LEMMA StartFailsKeeps == ASSUME VoiceIInv, StartFails PROVE VoiceIInv'
<1> USE VoiceAssumption, VoiceFacts DEF VoiceIInv, StartFails,
           Told, Surface, ReleasedTracks, ReleasedMedia, NoPost, NoStream, Over
<1>1. VoiceTypeOK'
  <2>0. bar \in Bars /\ rec \in Recs
    BY DEF VoiceTypeOK, Bars, Recs, Phases, RecStates
  <2>1. bar' \in Bars
    BY <2>0, BarEdit DEF Phases
  <2>2. rec' \in Recs
    BY <2>0, RecEdit DEF RecStates
  <2>3. media' \in [Recordings -> {"none", "recording", "ending", "inactive"}]
    BY DEF VoiceTypeOK
  <2>4. answers' \in [Recordings -> Nat]
    BY DEF VoiceTypeOK, Asking, WaitsForLast, Recordings
  <2>5. tracks' \subseteq Recordings /\ last' \in Recordings \cup {0}
    BY DEF VoiceTypeOK, Recordings, Asking
  <2>6. post'.step \in {"none", "sent", "upstream", "answered"}
    BY DEF VoiceTypeOK
  <2> QED
    BY <2>1, <2>2, <2>3, <2>4, <2>5, <2>6 DEF VoiceTypeOK, Phases, RecStates, Bars, Recs
<1>2. OnlyLastLives'
  BY DEF VoiceTypeOK, OnlyLastLives, TracksHeld, WaitsForLast, BarFollows, Asking, Recordings
<1>3. TracksHeld'
  BY DEF VoiceTypeOK, OnlyLastLives, TracksHeld, WaitsForLast, BarFollows, Asking, Recordings
<1>4. WaitsForLast'
  BY DEF VoiceTypeOK, OnlyLastLives, TracksHeld, WaitsForLast, BarFollows, Asking, Recordings
<1>5. BarFollows'
  BY DEF VoiceTypeOK, OnlyLastLives, TracksHeld, WaitsForLast, BarFollows, Asking, Recordings
<1> QED
  BY <1>1, <1>2, <1>3, <1>4, <1>5

(* A refused microphone answers the recording it was asked for.           *)
LEMMA DenyMicKeeps == ASSUME VoiceIInv, DenyMic PROVE VoiceIInv'
<1> USE VoiceAssumption, VoiceFacts DEF VoiceIInv, DenyMic,
           Told, Surface, ReleasedTracks, ReleasedMedia, NoPost, NoStream, Over
<1>1. VoiceTypeOK'
  <2>0. bar \in Bars /\ rec \in Recs
    BY DEF VoiceTypeOK, Bars, Recs, Phases, RecStates
  <2>1. bar' \in Bars
    BY <2>0, BarEdit DEF Phases
  <2>2. rec' \in Recs
    BY <2>0, RecEdit DEF RecStates
  <2>3. media' \in [Recordings -> {"none", "recording", "ending", "inactive"}]
    BY DEF VoiceTypeOK
  <2>4. answers' \in [Recordings -> Nat]
    BY DEF VoiceTypeOK, Asking, WaitsForLast, Recordings
  <2>5. tracks' \subseteq Recordings /\ last' \in Recordings \cup {0}
    BY DEF VoiceTypeOK, Recordings, Asking
  <2>6. post'.step \in {"none", "sent", "upstream", "answered"}
    BY DEF VoiceTypeOK
  <2> QED
    BY <2>1, <2>2, <2>3, <2>4, <2>5, <2>6 DEF VoiceTypeOK, Phases, RecStates, Bars, Recs
<1>2. OnlyLastLives'
  BY DEF VoiceTypeOK, OnlyLastLives, TracksHeld, WaitsForLast, BarFollows, Asking, Recordings
<1>3. TracksHeld'
  BY DEF VoiceTypeOK, OnlyLastLives, TracksHeld, WaitsForLast, BarFollows, Asking, Recordings
<1>4. WaitsForLast'
  BY DEF VoiceTypeOK, OnlyLastLives, TracksHeld, WaitsForLast, BarFollows, Asking, Recordings
<1>5. BarFollows'
  BY DEF VoiceTypeOK, OnlyLastLives, TracksHeld, WaitsForLast, BarFollows, Asking, Recordings
<1> QED
  BY <1>1, <1>2, <1>3, <1>4, <1>5

(* A stop waits for the last recording, or says that it has ended.        *)
LEMMA ClickStopKeeps == ASSUME VoiceIInv, ClickStop PROVE VoiceIInv'
<1> USE VoiceAssumption, VoiceFacts DEF VoiceIInv, ClickStop,
           Told, Surface, ReleasedTracks, ReleasedMedia, NoPost, NoStream, Over
<1>1. VoiceTypeOK'
  <2>0. bar \in Bars /\ rec \in Recs
    BY DEF VoiceTypeOK, Bars, Recs, Phases, RecStates
  <2>1. bar' \in Bars
    BY <2>0, BarEdit DEF Phases
  <2>2. rec' \in Recs
    BY <2>0, RecEdit DEF RecStates
  <2>3. media' \in [Recordings -> {"none", "recording", "ending", "inactive"}]
    BY DEF VoiceTypeOK
  <2>4. answers' \in [Recordings -> Nat]
    BY DEF VoiceTypeOK, Asking, WaitsForLast, Recordings
  <2>5. tracks' \subseteq Recordings /\ last' \in Recordings \cup {0}
    BY DEF VoiceTypeOK, Recordings, Asking
  <2>6. post'.step \in {"none", "sent", "upstream", "answered"}
    BY DEF VoiceTypeOK
  <2> QED
    BY <2>1, <2>2, <2>3, <2>4, <2>5, <2>6 DEF VoiceTypeOK, Phases, RecStates, Bars, Recs
<1>2. OnlyLastLives'
  BY DEF VoiceTypeOK, OnlyLastLives, TracksHeld, WaitsForLast, BarFollows, Asking, Recordings
<1>3. TracksHeld'
  BY DEF VoiceTypeOK, OnlyLastLives, TracksHeld, WaitsForLast, BarFollows, Asking, Recordings
<1>4. WaitsForLast'
  BY DEF VoiceTypeOK, OnlyLastLives, TracksHeld, WaitsForLast, BarFollows, Asking, Recordings
<1>5. BarFollows'
  <2>0. last # 0 /\ answers[last] = 0 /\ rec.stream = last /\ last' = last /\ last \in Recordings
    BY DEF BarFollows
  <2>1. CASE rec.state = "recording"
    <3>1. bar'.phase = "processing" /\ rec'.state = "processing" /\ rec'.stopping
      BY <2>1 DEF VoiceTypeOK
    <3> QED
      BY <2>0, <3>1 DEF BarFollows, Asking
  <2>2. CASE rec.state # "recording"
    <3>1. bar'.phase = "error" /\ rec' = rec /\ answers'[last] = 1
      BY <2>0, <2>2 DEF VoiceTypeOK
    <3> QED
      BY <2>0, <2>2, <3>1 DEF BarFollows, Asking
  <2> QED
    BY <2>1, <2>2
<1> QED
  BY <1>1, <1>2, <1>3, <1>4, <1>5

(* The end of a recording is the last one's; a waiting stop() posts it.   *)
LEMMA StopEventKeeps == ASSUME VoiceIInv, NEW r \in Recordings, StopEvent(r) PROVE VoiceIInv'
<1> USE VoiceAssumption, VoiceFacts DEF VoiceIInv, StopEvent,
           Told, Surface, ReleasedTracks, ReleasedMedia, NoPost, NoStream, Over
<1>1. VoiceTypeOK'
  <2>0. bar \in Bars /\ rec \in Recs
    BY DEF VoiceTypeOK, Bars, Recs, Phases, RecStates
  <2>1. bar' \in Bars
    BY <2>0, BarEdit DEF Phases
  <2>2. rec' \in Recs
    BY <2>0, RecEdit DEF RecStates
  <2>3. media' \in [Recordings -> {"none", "recording", "ending", "inactive"}]
    BY DEF VoiceTypeOK
  <2>4. answers' \in [Recordings -> Nat]
    BY DEF VoiceTypeOK, Asking, WaitsForLast, Recordings
  <2>5. tracks' \subseteq Recordings /\ last' \in Recordings \cup {0}
    BY DEF VoiceTypeOK, Recordings, Asking
  <2>6. post'.step \in {"none", "sent", "upstream", "answered"}
    BY DEF VoiceTypeOK
  <2> QED
    BY <2>1, <2>2, <2>3, <2>4, <2>5, <2>6 DEF VoiceTypeOK, Phases, RecStates, Bars, Recs
<1>2. OnlyLastLives'
  BY DEF VoiceTypeOK, OnlyLastLives, TracksHeld, WaitsForLast, BarFollows, Asking, Recordings
<1>3. TracksHeld'
  BY DEF VoiceTypeOK, OnlyLastLives, TracksHeld, WaitsForLast, BarFollows, Asking, Recordings
<1>4. WaitsForLast'
  BY DEF VoiceTypeOK, OnlyLastLives, TracksHeld, WaitsForLast, BarFollows, Asking, Recordings
<1>5. BarFollows'
  BY DEF VoiceTypeOK, OnlyLastLives, TracksHeld, WaitsForLast, BarFollows, Asking, Recordings
<1> QED
  BY <1>1, <1>2, <1>3, <1>4, <1>5

(* An error ends the last recording, releases its stream and answers it.  *)
LEMMA ErrorEventKeeps == ASSUME VoiceIInv, NEW r \in Recordings, ErrorEvent(r) PROVE VoiceIInv'
<1> USE VoiceAssumption, VoiceFacts DEF VoiceIInv, ErrorEvent,
           Told, Surface, ReleasedTracks, ReleasedMedia, NoPost, NoStream, Over
<1>1. VoiceTypeOK'
  <2>0. bar \in Bars /\ rec \in Recs
    BY DEF VoiceTypeOK, Bars, Recs, Phases, RecStates
  <2>1. bar' \in Bars
    BY <2>0, BarEdit DEF Phases
  <2>2. rec' \in Recs
    BY <2>0, RecEdit DEF RecStates
  <2>3. media' \in [Recordings -> {"none", "recording", "ending", "inactive"}]
    BY DEF VoiceTypeOK
  <2>4. answers' \in [Recordings -> Nat]
    BY DEF VoiceTypeOK, Asking, WaitsForLast, Recordings
  <2>5. tracks' \subseteq Recordings /\ last' \in Recordings \cup {0}
    BY DEF VoiceTypeOK, Recordings, Asking
  <2>6. post'.step \in {"none", "sent", "upstream", "answered"}
    BY DEF VoiceTypeOK
  <2> QED
    BY <2>1, <2>2, <2>3, <2>4, <2>5, <2>6 DEF VoiceTypeOK, Phases, RecStates, Bars, Recs
<1>2. OnlyLastLives'
  BY DEF VoiceTypeOK, OnlyLastLives, TracksHeld, WaitsForLast, BarFollows, Asking, Recordings
<1>3. TracksHeld'
  BY DEF VoiceTypeOK, OnlyLastLives, TracksHeld, WaitsForLast, BarFollows, Asking, Recordings
<1>4. WaitsForLast'
  BY DEF VoiceTypeOK, OnlyLastLives, TracksHeld, WaitsForLast, BarFollows, Asking, Recordings
<1>5. BarFollows'
  <2>1. r = last /\ last # 0 /\ answers[r] = 0 /\ last' = last
    BY DEF OnlyLastLives, Recordings, VoiceTypeOK
  <2>2. bar'.phase = "error" /\ rec'.state = "stopped" /\ answers'[r] = 1
    BY <2>1 DEF VoiceTypeOK
  <2> QED
    BY <2>1, <2>2 DEF BarFollows
<1> QED
  BY <1>1, <1>2, <1>3, <1>4, <1>5

(* A device that goes takes the track with it; its event is still to come.*)
LEMMA DeviceLostKeeps == ASSUME VoiceIInv, NEW r \in Recordings, DeviceLost(r) PROVE VoiceIInv'
<1> USE VoiceAssumption, VoiceFacts DEF VoiceIInv, DeviceLost,
           Told, Surface, ReleasedTracks, ReleasedMedia, NoPost, NoStream, Over
<1>1. VoiceTypeOK'
  BY DEF VoiceTypeOK, OnlyLastLives, TracksHeld, WaitsForLast, BarFollows, Asking, Recordings
<1>2. OnlyLastLives'
  BY DEF VoiceTypeOK, OnlyLastLives, TracksHeld, WaitsForLast, BarFollows, Asking, Recordings
<1>3. TracksHeld'
  BY DEF VoiceTypeOK, OnlyLastLives, TracksHeld, WaitsForLast, BarFollows, Asking, Recordings
<1>4. WaitsForLast'
  BY DEF VoiceTypeOK, OnlyLastLives, TracksHeld, WaitsForLast, BarFollows, Asking, Recordings
<1>5. BarFollows'
  BY DEF VoiceTypeOK, OnlyLastLives, TracksHeld, WaitsForLast, BarFollows, Asking, Recordings
<1> QED
  BY <1>1, <1>2, <1>3, <1>4, <1>5

(* release() ends the recording that is running and no other.             *)
LEMMA UnmountKeeps == ASSUME VoiceIInv, Unmount PROVE VoiceIInv'
<1> USE VoiceAssumption, VoiceFacts DEF VoiceIInv, Unmount,
           Told, Surface, ReleasedTracks, ReleasedMedia, NoPost, NoStream, Over
<1>1. VoiceTypeOK'
  <2>0. bar \in Bars /\ rec \in Recs
    BY DEF VoiceTypeOK, Bars, Recs, Phases, RecStates
  <2>1. bar' \in Bars
    BY <2>0, BarEdit DEF Phases
  <2>2. rec' \in Recs
    <3>1. CASE bar.held
      <4>1. rec' = [rec EXCEPT !.stream = 0, !.state = "idle"]
        BY <3>1
      <4> QED
        BY <4>1, <2>0 DEF Recs, RecStates
    <3>2. CASE ~bar.held
      BY <3>2, <2>0
    <3> QED
      BY <3>1, <3>2
  <2>3. media' \in [Recordings -> {"none", "recording", "ending", "inactive"}]
    BY DEF VoiceTypeOK
  <2>4. answers' \in [Recordings -> Nat]
    BY DEF VoiceTypeOK, Asking, WaitsForLast, Recordings
  <2>5. tracks' \subseteq Recordings /\ last' \in Recordings \cup {0}
    BY DEF VoiceTypeOK, Recordings, Asking
  <2>6. post'.step \in {"none", "sent", "upstream", "answered"}
    BY DEF VoiceTypeOK
  <2> QED
    BY <2>1, <2>2, <2>3, <2>4, <2>5, <2>6 DEF VoiceTypeOK, Phases, RecStates, Bars, Recs
<1>2. OnlyLastLives'
  <2>1. \A q \in Recordings : media'[q] = media[q]
                              \/ (q = rec.stream /\ media[q] = "recording" /\ media'[q] = "ending")
    BY DEF VoiceTypeOK
  <2> QED
    BY <2>1 DEF OnlyLastLives
<1>3. TracksHeld'
  BY DEF VoiceTypeOK, OnlyLastLives, TracksHeld, WaitsForLast, BarFollows, Asking, Recordings
<1>4. WaitsForLast'
  <2>1. last # 0 /\ media[last] # "recording" => media'[last] = media[last]
    BY DEF VoiceTypeOK
  <2>2. rec'.stopping = rec.stopping
    BY DEF VoiceTypeOK
  <2> QED
    BY <2>1, <2>2 DEF WaitsForLast
<1>5. BarFollows'
  BY DEF VoiceTypeOK, OnlyLastLives, TracksHeld, WaitsForLast, BarFollows, Asking, Recordings
<1> QED
  BY <1>1, <1>2, <1>3, <1>4, <1>5

(* The route moves the request on, and nothing else.                      *)
LEMMA SttReceivesKeeps == ASSUME VoiceIInv, NEW audio, SttReceives(audio) PROVE VoiceIInv'
<1> USE VoiceAssumption, VoiceFacts DEF VoiceIInv, SttReceives,
           Told, Surface, ReleasedTracks, ReleasedMedia, NoPost, NoStream, Over
<1>1. VoiceTypeOK'
  BY DEF VoiceTypeOK, OnlyLastLives, TracksHeld, WaitsForLast, BarFollows, Asking, Recordings
<1>2. OnlyLastLives'
  BY DEF VoiceTypeOK, OnlyLastLives, TracksHeld, WaitsForLast, BarFollows, Asking, Recordings
<1>3. TracksHeld'
  BY DEF VoiceTypeOK, OnlyLastLives, TracksHeld, WaitsForLast, BarFollows, Asking, Recordings
<1>4. WaitsForLast'
  BY DEF VoiceTypeOK, OnlyLastLives, TracksHeld, WaitsForLast, BarFollows, Asking, Recordings
<1>5. BarFollows'
  BY DEF VoiceTypeOK, OnlyLastLives, TracksHeld, WaitsForLast, BarFollows, Asking, Recordings
<1> QED
  BY <1>1, <1>2, <1>3, <1>4, <1>5

(* The provider's answer moves the request on, and nothing else.          *)
LEMMA SttAnswersKeeps == ASSUME VoiceIInv, NEW upstream, SttAnswers(upstream) PROVE VoiceIInv'
<1> USE VoiceAssumption, VoiceFacts DEF VoiceIInv, SttAnswers,
           Told, Surface, ReleasedTracks, ReleasedMedia, NoPost, NoStream, Over
<1>1. VoiceTypeOK'
  BY DEF VoiceTypeOK, OnlyLastLives, TracksHeld, WaitsForLast, BarFollows, Asking, Recordings
<1>2. OnlyLastLives'
  BY DEF VoiceTypeOK, OnlyLastLives, TracksHeld, WaitsForLast, BarFollows, Asking, Recordings
<1>3. TracksHeld'
  BY DEF VoiceTypeOK, OnlyLastLives, TracksHeld, WaitsForLast, BarFollows, Asking, Recordings
<1>4. WaitsForLast'
  BY DEF VoiceTypeOK, OnlyLastLives, TracksHeld, WaitsForLast, BarFollows, Asking, Recordings
<1>5. BarFollows'
  BY DEF VoiceTypeOK, OnlyLastLives, TracksHeld, WaitsForLast, BarFollows, Asking, Recordings
<1> QED
  BY <1>1, <1>2, <1>3, <1>4, <1>5

(* The answer of the route is told of the last recording, once.           *)
LEMMA FinishKeeps ==
    ASSUME VoiceIInv, NEW reached, NEW wellFormed, Finish(reached, wellFormed)
    PROVE  VoiceIInv'
<1> USE VoiceAssumption, VoiceFacts DEF VoiceIInv, Finish,
           Told, Surface, ReleasedTracks, ReleasedMedia, NoPost, NoStream, Over
<1>1. VoiceTypeOK'
  <2>0. bar \in Bars /\ rec \in Recs
    BY DEF VoiceTypeOK, Bars, Recs, Phases, RecStates
  <2>1. bar' \in Bars
    BY <2>0, BarEdit DEF Phases
  <2>2. rec' \in Recs
    BY <2>0, RecEdit DEF RecStates
  <2>3. media' \in [Recordings -> {"none", "recording", "ending", "inactive"}]
    BY DEF VoiceTypeOK
  <2>4. answers' \in [Recordings -> Nat]
    BY DEF VoiceTypeOK, Asking, WaitsForLast, Recordings
  <2>5. tracks' \subseteq Recordings /\ last' \in Recordings \cup {0}
    BY DEF VoiceTypeOK, Recordings, Asking
  <2>6. post'.step \in {"none", "sent", "upstream", "answered"}
    BY DEF VoiceTypeOK
  <2> QED
    BY <2>1, <2>2, <2>3, <2>4, <2>5, <2>6 DEF VoiceTypeOK, Phases, RecStates, Bars, Recs
<1>2. OnlyLastLives'
  BY DEF VoiceTypeOK, OnlyLastLives, TracksHeld, WaitsForLast, BarFollows, Asking, Recordings
<1>3. TracksHeld'
  BY DEF VoiceTypeOK, OnlyLastLives, TracksHeld, WaitsForLast, BarFollows, Asking, Recordings
<1>4. WaitsForLast'
  BY DEF VoiceTypeOK, OnlyLastLives, TracksHeld, WaitsForLast, BarFollows, Asking, Recordings
<1>5. BarFollows'
  BY DEF VoiceTypeOK, OnlyLastLives, TracksHeld, WaitsForLast, BarFollows, Asking, Recordings
<1> QED
  BY <1>1, <1>2, <1>3, <1>4, <1>5

(* Before the first click nothing is held and nobody waits.                *)
LEMMA VoiceInitHolds == VoiceInit => VoiceIInv
BY VoiceAssumption
   DEF VoiceInit, VoiceIInv, VoiceTypeOK, OnlyLastLives, TracksHeld, WaitsForLast, BarFollows,
       Asking, Recordings, NoPost, NoStream, Over

(* Every action, and the stuttering step, keeps the invariant.             *)
LEMMA VoiceStepHolds == ASSUME VoiceIInv, [VoiceNext]_voiceVars PROVE VoiceIInv'
<1>1. CASE UNCHANGED voiceVars
  BY <1>1 DEF voiceVars, VoiceIInv, VoiceTypeOK, OnlyLastLives, TracksHeld, WaitsForLast,
              BarFollows, Asking, Recordings, NoStream
<1>2. CASE VoiceNext
  BY <1>2, ClickStartKeeps, ClickRetryKeeps, GrantMicKeeps, StartFailsKeeps, DenyMicKeeps,
     ClickStopKeeps, StopEventKeeps, ErrorEventKeeps, DeviceLostKeeps, UnmountKeeps,
     SttReceivesKeeps, SttAnswersKeeps, FinishKeeps DEF VoiceNext
<1> QED
  BY <1>1, <1>2

(* The invariant gives what the recorder promises.                         *)
LEMMA VoiceIInvSuffices == ASSUME VoiceIInv PROVE RecorderKept
<1>1. VoiceTypeOK
  BY DEF VoiceIInv
<1>2. MicIsOwned
  <2>1. tracks \subseteq {rec.stream}
    BY DEF VoiceIInv, TracksHeld
  <2>2. bar.mounted /\ bar.phase \in {"idle", "error"} => tracks = {}
    <3> SUFFICES ASSUME bar.mounted, bar.phase \in {"idle", "error"}, tracks # {}
                 PROVE  FALSE
      OBVIOUS
    <3>1. last # 0 /\ last \in Recordings
      BY <1>1, VoiceFacts DEF VoiceIInv, TracksHeld, VoiceTypeOK, Recordings
    <3>2. answers[last] = 1 /\ media[last] \in {"recording", "ending"}
      BY <3>1 DEF VoiceIInv, TracksHeld, BarFollows
    <3> QED
      BY <3>1, <3>2 DEF VoiceIInv, OnlyLastLives, Over
  <2>3. bar.mounted /\ rec.state = "recording" => bar.phase = "recording"
    BY <1>1, VoiceFacts DEF VoiceIInv, BarFollows
  <2> QED
    BY <2>1, <2>2, <2>3 DEF MicIsOwned
<1>3. AnsweredOnce
  <2>1. \A r \in Recordings : answers[r] \in {0, 1} /\ (r < last => answers[r] = 1)
    BY <1>1, VoiceFacts DEF VoiceIInv, OnlyLastLives, Recordings
  <2>2. bar.mounted /\ bar.phase \in {"idle", "error"} => \A r \in 1 .. last : answers[r] = 1
    BY <1>1, <2>1, VoiceFacts, VoiceAssumption DEF VoiceIInv, BarFollows, Recordings
  <2> QED
    BY <2>1, <2>2 DEF AnsweredOnce
<1> QED
  BY <1>1, <1>2, <1>3 DEF RecorderKept

(* A live microphone is the one the recorder would release, none is live   *)
(* on a page that shows no recording, and the user hears of each recording *)
(* once (recorder.ts:162-178, 202, 226-236, 247-261;                       *)
(* voice-recorder-bar.tsx:123-132, 163-209).                               *)
THEOREM MicrophoneIsKept == VoiceSpec => []RecorderKept
<1>1. VoiceIInv /\ [VoiceNext]_voiceVars => VoiceIInv'
  BY VoiceStepHolds
<1>2. VoiceIInv => RecorderKept
  BY VoiceIInvSuffices
<1> QED
  BY <1>1, <1>2, VoiceInitHolds, PTL DEF VoiceSpec

----------------------------------------------------------------------------
(* OneVoice is not inductive: a call that finds itself current may start a *)
(* clip, so a page that is gone must have no current call.                 *)
SpeechInv ==
    /\ OneVoice
    /\ tab = "gone" => owner = Nobody

LEMMA SpeechInitInv == SpeechInit => SpeechInv
BY SpeechAssumption DEF SpeechInit, SpeechInv, OneVoice, SpeechTypeOK, Speaks, Nobody, Steps

(* Where the refs agree with each other, cleanupAudio silences everything. *)
LEMMA CleanupSilences ==
    ASSUME OneVoice, CleanupAudio
    PROVE  /\ playing' = {} /\ urls' = {}
           /\ audioRef' = Nobody /\ urlRef' = Nobody
           /\ emptied' \subseteq Speaks
BY SpeechAssumption DEF OneVoice, CleanupAudio, SpeechTypeOK, Speaks, Nobody

(* A step that cleans up leaves a sound state, whoever is current next.    *)
LEMMA CleanStep ==
    ASSUME SpeechInv, CleanupAudio,
           tts' \in {"none", "up", "refused"}, tab' \in {"mounted", "gone"},
           owner' \in Speaks \cup {Nobody}, tab' = "gone" => owner' = Nobody,
           ttsState' \in [phase : {"idle", "requesting", "playing", "error"},
                          by : Speaks \cup {Nobody}],
           speak' \in [Speaks -> Steps]
    PROVE  SpeechInv'
<1>1. /\ playing' = {} /\ urls' = {} /\ audioRef' = Nobody /\ urlRef' = Nobody
      /\ emptied' \subseteq Speaks
  BY CleanupSilences DEF SpeechInv
<1> QED
  BY <1>1 DEF SpeechInv, OneVoice, SpeechTypeOK

(* A step that leaves the refs alone adds no voice.                        *)
LEMMA QuietStep ==
    ASSUME SpeechInv, UNCHANGED <<owner, audioRef, urlRef, tab>>,
           tts' \in {"none", "up", "refused"},
           ttsState' \in [phase : {"idle", "requesting", "playing", "error"},
                          by : Speaks \cup {Nobody}],
           speak' \in [Speaks -> Steps],
           playing' \subseteq playing, urls' \subseteq urls, emptied' \subseteq emptied
    PROVE  SpeechInv'
BY DEF SpeechInv, OneVoice, SpeechTypeOK

(* Every action, and the stuttering step, keeps the invariant.             *)
LEMMA SpeechStepInv == ASSUME SpeechInv, [SpeechNext]_speechVars PROVE SpeechInv'
<1> USE DEF Display, Step
<1>t. SpeechTypeOK
  BY DEF SpeechInv, OneVoice
<1>1. ASSUME NEW a, NEW b, VoicePlugin(a, b) PROVE SpeechInv'
  BY <1>1, <1>t, QuietStep DEF VoicePlugin, SpeechTypeOK
<1>2. CASE StopSpeech
  BY <1>2, <1>t, CleanStep DEF StopSpeech, SpeechTypeOK
<1>3. CASE LeavePage
  BY <1>3, <1>t, CleanStep DEF LeavePage, SpeechTypeOK
<1>4. ASSUME NEW s \in Speaks, Speak(s) PROVE SpeechInv'
  BY <1>4, <1>t, CleanStep DEF Speak, SpeechTypeOK, Steps
<1>5. ASSUME NEW s \in Speaks, FetchFails(s) PROVE SpeechInv'
  BY <1>5, <1>t, QuietStep DEF FetchFails, SpeechTypeOK, Steps
<1>6. ASSUME NEW s \in Speaks, NEW input, NEW provider, FetchAnswers(s, input, provider)
      PROVE  SpeechInv'
  BY <1>6, <1>t, QuietStep DEF FetchAnswers, SpeechTypeOK, Steps
<1>7. ASSUME NEW s \in Speaks, ReportFailure(s) PROVE SpeechInv'
  BY <1>7, <1>t, QuietStep DEF ReportFailure, SpeechTypeOK, Steps
<1>8. ASSUME NEW s \in Speaks, BlobArrives(s) PROVE SpeechInv'
  <2>1. CASE Stale(s)
    BY <1>8, <2>1, <1>t, QuietStep DEF BlobArrives, SpeechTypeOK, Steps
  <2>2. CASE ~Stale(s)
    <3>1. owner = s /\ s # Nobody /\ tab # "gone"
      BY <2>2, SpeechAssumption DEF Stale, Speaks, Nobody, SpeechInv
    <3>2. playing \subseteq {s} /\ urls \subseteq {s}
      BY <3>1, <1>t, SpeechAssumption DEF SpeechInv, OneVoice, SpeechTypeOK, Speaks, Nobody
    <3> QED
      BY <1>8, <2>2, <3>1, <3>2, <1>t DEF BlobArrives, SpeechInv, OneVoice, SpeechTypeOK, Steps
  <2> QED
    BY <2>1, <2>2
<1>9. ASSUME NEW s \in Speaks, PlayResolves(s) PROVE SpeechInv'
  <2>1. speak' \in [Speaks -> Steps] /\ UNCHANGED <<tts, owner, audioRef, urlRef, tab>>
    BY <1>9, <1>t DEF PlayResolves, SpeechTypeOK, Steps
  <2>2. playing' \subseteq playing /\ urls' \subseteq urls /\ emptied' \subseteq emptied
    BY <1>9 DEF PlayResolves
  <2>3. ttsState' \in [phase : {"idle", "requesting", "playing", "error"},
                       by : Speaks \cup {Nobody}]
    BY <1>9, <1>t DEF PlayResolves, SpeechTypeOK
  <2> QED
    BY <2>1, <2>2, <2>3, <1>t, QuietStep DEF SpeechTypeOK
<1>10. ASSUME NEW s \in Speaks, PlayRejects(s) PROVE SpeechInv'
  BY <1>10, <1>t, CleanStep DEF PlayRejects, SpeechTypeOK, Steps, SpeechInv
<1>11. ASSUME NEW s \in Speaks, NEW failed \in BOOLEAN, ClipEnds(s, failed) PROVE SpeechInv'
  BY <1>11, <1>t, CleanStep DEF ClipEnds, SpeechTypeOK, Steps, SpeechInv
<1>12. ASSUME NEW s \in Speaks, EmptySource(s) PROVE SpeechInv'
  BY <1>12, <1>t, SpeechAssumption
     DEF EmptySource, SpeechInv, OneVoice, SpeechTypeOK, Speaks, Nobody
<1>13. CASE UNCHANGED speechVars
  BY <1>13, <1>t, QuietStep DEF speechVars, SpeechTypeOK
<1> QED
  BY <1>1, <1>2, <1>3, <1>4, <1>5, <1>6, <1>7, <1>8, <1>9, <1>10, <1>11, <1>12, <1>13
     DEF SpeechNext

(* What plays is the clip of the newest call, the refs hold it and its URL, *)
(* and a page that is gone is silent (use-tts.ts:90-95, 121-144, 218-274). *)
THEOREM OneVoiceAtATime == SpeechSpec => []OneVoice
<1>1. SpeechInv => OneVoice
  BY DEF SpeechInv
<1>2. SpeechInv /\ [SpeechNext]_speechVars => SpeechInv'
  BY SpeechStepInv
<1> QED
  BY <1>1, <1>2, SpeechInitInv, PTL DEF SpeechSpec

----------------------------------------------------------------------------
(* The React client of a room, for any number of members, presences and    *)
(* frames, when React renders before the user acts again.                  *)

(* The tables: a presence, what is rendered, a frame.                      *)
Presence == [PresenceKeys -> {Unset} \cup {p.value : p \in Patches}]
Views == [others : [Anyone -> Presence \cup {Absent}], mine : Presence,
          id : Anyone \cup {Absent}]
ClientFrames ==
    [type : {"joined", "left", "presence-changed", "yjs-update", "corrupt"},
     conn : Anyone \cup {Absent}, presence : Presence]
Edits == {"mine", "theirs"}
Documents == [mine : SUBSET Edits, server : SUBSET Edits, sent : SUBSET Edits,
              out : SUBSET Edits, dropped : BOOLEAN, storage : {"yjs", "none"}]

ClientTyped ==
    /\ roomNo \in Nat
    /\ self \in Selves \cup {Absent}
    /\ loop \in {"idle", "open", "ended", "gone", "closed"}
    /\ members \in [Anyone -> Presence \cup {Absent}]
    /\ announced \subseteq Peers
    /\ down \in Seq(ClientFrames)
    /\ up \subseteq [n : Nat, patch : Patches]
    /\ ref \in Views /\ view \in Views
    /\ patched \in [me : Nat, peer : Nat]
    /\ refused \in BOOLEAN
    /\ ydoc \in Documents

(* Before the first room nothing has happened here.                        *)
BeforeRoom ==
    roomNo = 0 => /\ loop = "idle" /\ ref = Nowhere /\ down = <<>> /\ up = {}
                  /\ ydoc.mine = {} /\ ydoc.server = {} /\ ydoc.out = {}

InFirstRoom == roomNo = 1 /\ loop = "open"

(* The first frame names this client, and no other one does.               *)
NamedFirst ==
    InFirstRoom =>
        /\ self \in Selves /\ ref.id \in {self, Absent} /\ ref.others[self] = Absent
        /\ ref.id = Absent => Len(down) > 0 /\ down[1].type = "joined" /\ down[1].conn = self
        /\ \A i \in 1 .. Len(down) :
              /\ down[i].type = "joined" /\ down[i].conn = self => i = 1 /\ ref.id = Absent
              /\ down[i].type = "left" => down[i].conn \in Peers

(* A frame that is about a member; what it says of it.                     *)
AboutMember(frame, c) ==
    frame.type \in {"joined", "left", "presence-changed"} /\ frame.conn = c
PresenceTold(frame) == IF frame.type = "left" THEN Absent ELSE frame.presence

(* What this client shows of a member, and what the server would have it   *)
(* show.                                                                   *)
ShownOf(c) == IF c = self THEN ref.mine ELSE ref.others[c]
HeldOf(c) == IF c = self \/ c \in announced THEN members[c] ELSE Absent

(* The last frame on its way about a member says what the server holds;    *)
(* without one it is shown, of this client itself when no patch of its own *)
(* is on its way and none was lost or refused.                             *)
LastTold(c) ==
    /\ \A i \in 1 .. Len(down) :
          AboutMember(down[i], c) /\ (\A j \in 1 .. Len(down) : j > i => ~AboutMember(down[j], c))
              => PresenceTold(down[i]) = HeldOf(c)
    /\ (\A i \in 1 .. Len(down) : ~AboutMember(down[i], c)) /\ (c = self => up = {} /\ ~refused)
          => ShownOf(c) = HeldOf(c)

WordsTold == InFirstRoom => \A c \in Anyone : LastTold(c)

(* Every edit made here is sent, once, and is on its way, at the server or *)
(* lost; the edit of a peer is at the server before it comes here.         *)
OnTheWire(frame) == frame.type \in {"yjs-update", "corrupt"}
EditsKept ==
    /\ ydoc.sent = ydoc.mine \ {"theirs"} /\ ydoc.out \subseteq ydoc.sent
    /\ "mine" \in ydoc.server => "mine" \in ydoc.mine
    /\ "mine" \in ydoc.mine => "mine" \in ydoc.out \cup ydoc.server \/ ydoc.dropped
    /\ roomNo <= 1 /\ "theirs" \in ydoc.mine => "theirs" \in ydoc.server
    /\ \A i \in 1 .. Len(down) : OnTheWire(down[i]) => "theirs" \in ydoc.server
    /\ InFirstRoom /\ "theirs" \in ydoc.server =>
          \/ "theirs" \in ydoc.mine \/ ydoc.dropped
          \/ \E i \in 1 .. Len(down) : OnTheWire(down[i])

ClientIInv == ClientTyped /\ BeforeRoom /\ NamedFirst /\ WordsTold /\ EditsKept

LEMMA ClientInitHolds == ASSUME ClientInit PROVE ClientIInv
<1> USE ClientAssumption DEF ClientInit
<1>1. ClientTyped
  <2>1. EmptyPresence \in Presence
    BY DEF EmptyPresence, Presence
  <2>2. Nowhere \in Views
    BY <2>1 DEF Nowhere, Views
  <2>3. down \in Seq(ClientFrames)
    OBVIOUS
  <2>4. ydoc \in Documents /\ patched \in [me : Nat, peer : Nat]
    BY DEF Documents
  <2> QED
    BY <2>2, <2>3, <2>4 DEF ClientTyped
<1>2. BeforeRoom /\ NamedFirst /\ WordsTold /\ EditsKept
  BY DEF BeforeRoom, NamedFirst, WordsTold, EditsKept, InFirstRoom
<1> QED
  BY <1>1, <1>2 DEF ClientIInv

(* What the types say.                                                     *)
LEMMA ClientFacts ==
    ASSUME ClientTyped
    PROVE  /\ Len(down) \in Nat /\ \A i \in 1 .. Len(down) : down[i] \in ClientFrames
           /\ ref.mine \in Presence /\ ref.id \in Anyone \cup {Absent}
           /\ ref.others \in [Anyone -> Presence \cup {Absent}]
           /\ patched.me \in Nat /\ patched.peer \in Nat
           /\ ydoc.mine \subseteq Edits /\ ydoc.server \subseteq Edits
BY DEF ClientTyped, Views, Documents

(* One presence of the table is replaced by another.                       *)
LEMMA PresenceFits ==
    ASSUME NEW p \in Presence, NEW patch \in Patches
    PROVE  [p EXCEPT ![patch.key] = patch.value] \in Presence
BY DEF Presence

LEMMA MineEdit ==
    ASSUME NEW v \in Views, NEW p \in Presence, NEW w, w = [v EXCEPT !.mine = p]
    PROVE  w \in Views /\ w.mine = p /\ w.id = v.id /\ w.others = v.others
BY DEF Views

LEMMA PatchEdit ==
    ASSUME NEW v \in Views, NEW patch \in Patches, NEW w,
           w = [v EXCEPT !.mine[patch.key] = patch.value]
    PROVE  w \in Views /\ w.id = v.id /\ w.others = v.others
<1>1. w = [v EXCEPT !.mine = [v.mine EXCEPT ![patch.key] = patch.value]]
  BY DEF Views
<1>2. [v.mine EXCEPT ![patch.key] = patch.value] \in Presence
  BY PresenceFits DEF Views
<1> QED
  BY <1>1, <1>2, MineEdit

(* A frame goes to the end of the stream of a loop that is there.          *)
LEMMA FrameSent ==
    ASSUME ClientTyped, NEW frame \in ClientFrames, down' = Receives(frame)
    PROVE  /\ down' \in Seq(ClientFrames)
           /\ loop \notin {"open", "gone"} => down' = down
           /\ loop \in {"open", "gone"} =>
                 /\ Len(down') = Len(down) + 1 /\ down'[Len(down) + 1] = frame
                 /\ \A i \in 1 .. Len(down) : down'[i] = down[i]
<1>1. down \in Seq(ClientFrames)
  BY DEF ClientTyped
<1> QED
  BY <1>1, AppendProperties DEF Receives

(* What is said of a member, and not of itself in its first frame, leaves  *)
(* the naming as it is.                                                    *)
LEMMA NamingKept ==
    ASSUME ClientIInv, NEW frame \in ClientFrames, down' = Receives(frame),
           ~(frame.type = "joined" /\ frame.conn = self),
           frame.type = "left" => frame.conn \in Peers,
           UNCHANGED <<roomNo, self, loop, ref>>
    PROVE  NamedFirst'
<1> SUFFICES ASSUME InFirstRoom PROVE NamedFirst'
  BY DEF NamedFirst, InFirstRoom
<1>1. NamedFirst /\ Len(down) \in Nat
  BY ClientFacts DEF ClientIInv
<1>2. /\ Len(down') = Len(down) + 1 /\ down'[Len(down) + 1] = frame
      /\ \A i \in 1 .. Len(down) : down'[i] = down[i]
  BY FrameSent DEF ClientIInv, InFirstRoom
<1>3. \A i \in 1 .. Len(down') : i \in 1 .. Len(down) \/ i = Len(down) + 1
  BY <1>1, <1>2
<1> QED
  BY <1>1, <1>2, <1>3 DEF NamedFirst, InFirstRoom

(* Whoever the frame is about, it is the last word.                        *)
LEMMA WordSent ==
    ASSUME ClientIInv, InFirstRoom, NEW frame \in ClientFrames, down' = Receives(frame),
           NEW m \in Anyone, AboutMember(frame, m), PresenceTold(frame) = HeldOf(m)',
           UNCHANGED <<roomNo, self, loop, ref>>,
           \A c \in Anyone \ {m} : HeldOf(c)' = HeldOf(c),
           m # self => up' = up /\ refused' = refused
    PROVE  WordsTold'
<1>1. WordsTold /\ Len(down) \in Nat
  BY ClientFacts DEF ClientIInv
<1>2. /\ Len(down') = Len(down) + 1 /\ down'[Len(down) + 1] = frame
      /\ \A i \in 1 .. Len(down) : down'[i] = down[i]
  BY FrameSent DEF ClientIInv, InFirstRoom
<1> SUFFICES ASSUME NEW c \in Anyone PROVE LastTold(c)'
  BY DEF WordsTold
<1>3. LastTold(c)
  BY <1>1 DEF WordsTold
<1>4. CASE c = m
  <2>1. Len(down) + 1 \in 1 .. Len(down')
    BY <1>1, <1>2
  <2>2. \A i \in 1 .. Len(down') : i # Len(down) + 1 => i < Len(down) + 1
    BY <1>1, <1>2
  <2> QED
    BY <1>2, <1>4, <2>1, <2>2 DEF LastTold
<1>5. CASE c # m
  <2>1. ~AboutMember(frame, c)
    BY <1>5 DEF AboutMember
  <2>2. HeldOf(c)' = HeldOf(c) /\ ShownOf(c)' = ShownOf(c)
    BY <1>5 DEF ShownOf
  <2>3. \A i \in 1 .. Len(down') : i \in 1 .. Len(down) \/ i = Len(down) + 1
    BY <1>1, <1>2
  <2>4. \A i \in 1 .. Len(down) : i \in 1 .. Len(down') /\ i # Len(down) + 1
    BY <1>1, <1>2
  <2>5. c = self /\ up' = {} /\ ~refused' => m = self \/ (up = {} /\ ~refused)
    OBVIOUS
  <2>6. c = self /\ up' = {} /\ ~refused' => up = {} /\ ~refused
    BY <1>5
  <2> HIDE DEF HeldOf, ShownOf, AboutMember, PresenceTold
  <2>7. ASSUME NEW i \in 1 .. Len(down'), AboutMember(down'[i], c),
               \A j \in 1 .. Len(down') : j > i => ~AboutMember(down'[j], c)
        PROVE  PresenceTold(down'[i]) = HeldOf(c)'
    BY <1>2, <1>3, <2>1, <2>2, <2>3, <2>4, <2>7 DEF LastTold
  <2>8. ASSUME \A i \in 1 .. Len(down') : ~AboutMember(down'[i], c),
               c = self => up' = {} /\ ~refused'
        PROVE  ShownOf(c)' = HeldOf(c)'
    BY <1>2, <1>3, <2>2, <2>4, <2>6, <2>8 DEF LastTold
  <2> QED
    BY <2>7, <2>8 DEF LastTold
<1> QED
  BY <1>4, <1>5

----------------------------------------------------------------------------
(* The document and the words about the others, where nothing is said of   *)
(* either.                                                                 *)
LEMMA EditsUntouched ==
    ASSUME ClientIInv, NEW frame \in ClientFrames, ~OnTheWire(frame), down' = Receives(frame),
           UNCHANGED <<roomNo, loop, ydoc>>
    PROVE  EditsKept'
<1>1. EditsKept /\ Len(down) \in Nat /\ ClientTyped
  BY ClientFacts DEF ClientIInv
<1>2. CASE loop \in {"open", "gone"}
  <2>1. /\ Len(down') = Len(down) + 1 /\ down'[Len(down) + 1] = frame
        /\ \A i \in 1 .. Len(down) : down'[i] = down[i]
    BY <1>1, <1>2, FrameSent
  <2>2. \A i \in 1 .. Len(down') : i \in 1 .. Len(down) \/ i = Len(down) + 1
    BY <1>1, <2>1
  <2>3. \A i \in 1 .. Len(down) : i \in 1 .. Len(down')
    BY <1>1, <2>1
  <2> HIDE DEF OnTheWire
  <2> QED
    BY <1>1, <2>1, <2>2, <2>3 DEF EditsKept, InFirstRoom
<1>3. CASE loop \notin {"open", "gone"}
  <2>1. down' = down
    BY <1>1, <1>3, FrameSent
  <2> QED
    BY <1>1, <2>1 DEF EditsKept, InFirstRoom
<1> QED
  BY <1>2, <1>3

(* The server tells of a member what it holds of it now.                   *)
LEMMA MemberTold ==
    ASSUME ClientIInv, NEW m \in Anyone, NEW frame \in ClientFrames, down' = Receives(frame),
           AboutMember(frame, m), m = self => frame.type = "presence-changed",
           frame.type = "left" => m \in Peers,
           InFirstRoom => PresenceTold(frame) = HeldOf(m)',
           members' \in [Anyone -> Presence \cup {Absent}],
           \A c \in Anyone \ {m} : members'[c] = members[c],
           announced' \subseteq Peers, \A c \in Anyone \ {m} : c \in announced' <=> c \in announced,
           up' \subseteq up, m # self => up' = up /\ refused' = refused, refused' \in BOOLEAN,
           patched' \in [me : Nat, peer : Nat],
           UNCHANGED <<roomNo, self, loop, ref, view, ydoc>>
    PROVE  ClientIInv'
<1>1. ClientTyped'
  BY FrameSent DEF ClientIInv, ClientTyped
<1>2. BeforeRoom'
  BY FrameSent DEF ClientIInv, BeforeRoom
<1>3. NamedFirst'
  BY NamingKept DEF AboutMember
<1>4. WordsTold'
  <2>1. CASE InFirstRoom
    <3>1. \A c \in Anyone \ {m} : HeldOf(c)' = HeldOf(c)
      BY DEF HeldOf
    <3> QED
      BY <2>1, <3>1, WordSent
  <2>2. CASE ~InFirstRoom
    BY <2>2 DEF WordsTold, InFirstRoom
  <2> QED
    BY <2>1, <2>2
<1>5. EditsKept'
  BY EditsUntouched DEF AboutMember, OnTheWire
<1> QED
  BY <1>1, <1>2, <1>3, <1>4, <1>5 DEF ClientIInv

LEMMA FrameFits ==
    ASSUME NEW type \in {"joined", "left", "presence-changed"}, NEW c \in Anyone,
           NEW p \in Presence
    PROVE  /\ Frame(type, c, p) \in ClientFrames /\ AboutMember(Frame(type, c, p), c)
           /\ Frame(type, c, p).type = type
           /\ PresenceTold(Frame(type, c, p)) = IF type = "left" THEN Absent ELSE p
BY DEF Frame, ClientFrames, AboutMember, PresenceTold

LEMMA PeerJoinsKeeps ==
    ASSUME ClientIInv, NEW p \in Peers, PeerJoins(p) PROVE ClientIInv'
<1> USE ClientAssumption
<1>1. EmptyPresence \in Presence /\ p \in Anyone
  BY DEF EmptyPresence, Presence, Anyone
<1>2. members' \in [Anyone -> Presence \cup {Absent}] /\ members'[p] = EmptyPresence
      /\ \A c \in Anyone \ {p} : members'[c] = members[c]
  BY <1>1 DEF PeerJoins, ClientIInv, ClientTyped
<1>3. patched' \in [me : Nat, peer : Nat]
  BY DEF PeerJoins, ClientIInv, ClientTyped
<1>4. p # self
  BY DEF ClientIInv, ClientTyped
<1>5. InFirstRoom => HeldOf(p)' = EmptyPresence
  BY <1>2 DEF HeldOf, PeerJoins, InFirstRoom
<1>6. /\ announced' \subseteq Peers /\ \A c \in Anyone \ {p} : c \in announced' <=> c \in announced
      /\ UNCHANGED <<roomNo, self, loop, ref, view, ydoc, up, refused>>
      /\ down' = Receives(Frame("joined", p, EmptyPresence)) /\ refused \in BOOLEAN
  BY DEF PeerJoins, StateUnchanged, ClientIInv, ClientTyped
<1> QED
  BY <1>1, <1>2, <1>3, <1>4, <1>5, <1>6, FrameFits, MemberTold

LEMMA PeerLeavesKeeps ==
    ASSUME ClientIInv, NEW p \in Peers, PeerLeaves(p) PROVE ClientIInv'
<1> USE ClientAssumption
<1>1. EmptyPresence \in Presence /\ p \in Anyone
  BY DEF EmptyPresence, Presence, Anyone
<1>2. members' \in [Anyone -> Presence \cup {Absent}]
      /\ \A c \in Anyone \ {p} : members'[c] = members[c]
  BY <1>1 DEF PeerLeaves, ClientIInv, ClientTyped
<1>3. p # self
  BY DEF ClientIInv, ClientTyped
<1>4. HeldOf(p)' = Absent
  BY <1>3 DEF HeldOf, PeerLeaves
<1>5. /\ announced' \subseteq Peers /\ \A c \in Anyone \ {p} : c \in announced' <=> c \in announced
      /\ UNCHANGED <<roomNo, self, loop, ref, view, ydoc, up, refused, patched>>
      /\ down' = Receives(Frame("left", p, EmptyPresence)) /\ refused \in BOOLEAN
      /\ patched \in [me : Nat, peer : Nat]
  BY DEF PeerLeaves, StateUnchanged, ClientIInv, ClientTyped
<1> QED
  BY <1>1, <1>2, <1>3, <1>4, <1>5, FrameFits, MemberTold

LEMMA PeerChangesKeeps ==
    ASSUME ClientIInv, NEW p \in Peers, NEW patch \in Patches, PeerChanges(p, patch)
    PROVE  ClientIInv'
<1> USE ClientAssumption
<1> DEFINE next == [members[p] EXCEPT ![patch.key] = patch.value]
<1>1. p \in Anyone /\ members[p] \in Presence
  BY DEF Anyone, PeerChanges, Online, ClientIInv, ClientTyped
<1>2. next \in Presence
  BY <1>1, PresenceFits
<1>3. /\ members' = [members EXCEPT ![p] = next]
      /\ down' = Receives(Frame("presence-changed", p, next))
  BY DEF PeerChanges
<1> HIDE DEF next
<1>4. members' \in [Anyone -> Presence \cup {Absent}] /\ members'[p] = next
      /\ \A c \in Anyone \ {p} : members'[c] = members[c]
  BY <1>1, <1>2, <1>3 DEF ClientIInv, ClientTyped
<1>5. p # self
  BY DEF ClientIInv, ClientTyped
<1>6. InFirstRoom => HeldOf(p)' = next
  BY <1>4 DEF HeldOf, PeerChanges, InFirstRoom
<1>7. /\ announced' \subseteq Peers /\ \A c \in Anyone \ {p} : c \in announced' <=> c \in announced
      /\ UNCHANGED <<roomNo, self, loop, ref, view, ydoc, up, refused>>
      /\ patched' \in [me : Nat, peer : Nat] /\ refused \in BOOLEAN
  BY DEF PeerChanges, StateUnchanged, ClientIInv, ClientTyped
<1> QED
  BY <1>1, <1>2, <1>3, <1>4, <1>5, <1>6, <1>7, FrameFits, MemberTold

LEMMA DispatchPresenceKeeps ==
    ASSUME ClientIInv, NEW m \in up, DispatchPresence(m) PROVE ClientIInv'
<1> USE ClientAssumption
<1> DEFINE next == [members[self] EXCEPT ![m.patch.key] = m.patch.value]
<1>0. /\ UNCHANGED <<roomNo, self, loop, ref, view, ydoc, announced, patched>>
      /\ up' \subseteq up /\ m.patch \in Patches
      /\ announced \subseteq Peers /\ patched \in [me : Nat, peer : Nat]
  BY DEF DispatchPresence, StateUnchanged, ClientIInv, ClientTyped
<1>1. CASE self # Absent /\ Online(self) /\ Fits(next)
  <2>1. self \in Anyone /\ self \notin Peers /\ members[self] \in Presence
    BY <1>1 DEF Anyone, Online, ClientIInv, ClientTyped
  <2>2. next \in Presence
    BY <1>0, <2>1, PresenceFits
  <2>3. /\ members' = [members EXCEPT ![self] = next] /\ refused' = refused
        /\ down' = Receives(Frame("presence-changed", self, next))
    BY <1>1 DEF DispatchPresence
  <2> HIDE DEF next
  <2>4. members' \in [Anyone -> Presence \cup {Absent}] /\ members'[self] = next
        /\ \A c \in Anyone \ {self} : members'[c] = members[c]
    BY <2>1, <2>2, <2>3 DEF ClientIInv, ClientTyped
  <2>5. HeldOf(self)' = next
    BY <1>0, <2>4 DEF HeldOf
  <2>6. refused' \in BOOLEAN
    BY <2>3 DEF ClientIInv, ClientTyped
  <2> QED
    BY <1>0, <2>1, <2>2, <2>3, <2>4, <2>5, <2>6, FrameFits, MemberTold
<1>2. CASE ~(self # Absent /\ Online(self) /\ Fits(next))
  <2>1. UNCHANGED <<members, down>> /\ refused' = TRUE
    BY <1>2 DEF DispatchPresence
  <2>2. ClientTyped'
    BY <1>0, <2>1 DEF ClientIInv, ClientTyped
  <2>3. BeforeRoom' /\ NamedFirst' /\ EditsKept'
    BY <1>0, <2>1 DEF ClientIInv, BeforeRoom, NamedFirst, EditsKept, InFirstRoom
  <2>4. WordsTold'
    <3> SUFFICES ASSUME InFirstRoom', NEW c \in Anyone PROVE LastTold(c)'
      BY DEF WordsTold
    <3>1. LastTold(c) /\ HeldOf(c)' = HeldOf(c) /\ ShownOf(c)' = ShownOf(c)
      BY <1>0, <2>1 DEF ClientIInv, WordsTold, InFirstRoom, HeldOf, ShownOf
    <3> QED
      BY <1>0, <2>1, <3>1 DEF LastTold
  <2> QED
    BY <2>2, <2>3, <2>4 DEF ClientIInv
<1> QED
  BY <1>1, <1>2

----------------------------------------------------------------------------
(* What the loop makes of the frame it takes.                              *)
LEMMA FrameTaken ==
    ASSUME ClientIInv, DeliverFrame
    PROVE  /\ ref' \in Views /\ ydoc' \in Documents /\ Len(down') = Len(down) - 1
           /\ down[1] \in ClientFrames /\ down' \in Seq(ClientFrames) /\ Len(down) \in Nat \ {0}
           /\ \A i \in 1 .. Len(down') : down'[i] = down[i + 1]
           /\ InFirstRoom =>
                 /\ ref'.id = self /\ ref'.others[self] = Absent
                 /\ \A c \in Anyone : ShownOf(c)' = IF AboutMember(down[1], c)
                                                    THEN PresenceTold(down[1]) ELSE ShownOf(c)
<1> USE ClientAssumption
<1> DEFINE f == down[1]
<1>1. /\ down \in Seq(ClientFrames) /\ down # <<>> /\ Head(down) = f /\ down' = Tail(down)
      /\ ref \in Views /\ ydoc \in Documents /\ self' = self /\ ClientTyped
  BY DEF ClientIInv, ClientTyped, DeliverFrame
<1>2. /\ f \in ClientFrames /\ down' \in Seq(ClientFrames) /\ Len(down) \in Nat \ {0}
      /\ Len(down') = Len(down) - 1 /\ \A i \in 1 .. Len(down') : down'[i] = down[i + 1]
  BY <1>1, HeadTailProperties, LenProperties, EmptySeq
<1>3. /\ f.type \in {"joined", "left", "presence-changed", "yjs-update", "corrupt"}
      /\ f.conn \in Anyone \cup {Absent} /\ f.presence \in Presence
  BY <1>2 DEF ClientFrames
<1>4. ydoc' \in Documents
  BY <1>1 DEF DeliverFrame, ApplyYjs, OnUpdate, Documents, Edits
<1>5. ref' = CASE f.type = "joined" -> ApplyJoined(f)
               [] f.type = "left" -> ApplyLeft(f)
               [] f.type = "presence-changed" -> ApplyPresenceChanged(f)
               [] OTHER -> ref
  BY <1>1 DEF DeliverFrame
<1>6. InFirstRoom => /\ self \in Selves /\ ref.id \in {self, Absent} /\ ref.others[self] = Absent
                     /\ ref.id = Absent => f.type = "joined" /\ f.conn = self
                     /\ f.type = "joined" /\ f.conn = self => ref.id = Absent
                     /\ f.type = "left" => f.conn \in Peers
  BY <1>2 DEF ClientIInv, NamedFirst
<1> DEFINE Spoken == InFirstRoom =>
                 /\ ref'.id = self /\ ref'.others[self] = Absent
                 /\ \A c \in Anyone : ShownOf(c)' = IF AboutMember(f, c)
                                                    THEN PresenceTold(f) ELSE ShownOf(c)
<1> HIDE DEF f
<1>7. CASE f.type = "joined" /\ ref.id = Absent
  <2>1. ref' = [ref EXCEPT !.mine = f.presence, !.id = f.conn]
    BY <1>5, <1>7 DEF ApplyJoined
  <2>2. ref' \in Views /\ ref'.mine = f.presence /\ ref'.id = f.conn /\ ref'.others = ref.others
    BY <1>1, <1>3, <2>1 DEF Views
  <2> QED
    BY <1>1, <1>2, <1>4, <1>6, <1>7, <2>2 DEF ShownOf, AboutMember, PresenceTold, f
<1>8. CASE f.type = "presence-changed" /\ f.conn = ref.id
  <2>1. ref' = [ref EXCEPT !.mine = f.presence]
    BY <1>5, <1>8 DEF ApplyPresenceChanged
  <2>2. ref' \in Views /\ ref'.mine = f.presence /\ ref'.id = ref.id /\ ref'.others = ref.others
    BY <1>1, <1>3, <2>1, MineEdit
  <2> QED
    BY <1>1, <1>2, <1>4, <1>6, <1>8, <2>2 DEF ShownOf, AboutMember, PresenceTold, f
<1>9. CASE \/ f.type = "left"
           \/ f.type = "joined" /\ ref.id # Absent
           \/ f.type = "presence-changed" /\ f.conn # ref.id
  <2>1. ref' = [ref EXCEPT !.others[f.conn] = PresenceTold(f)]
    BY <1>5, <1>9 DEF ApplyJoined, ApplyLeft, ApplyPresenceChanged, PresenceTold
  <2>2. PresenceTold(f) \in Presence \cup {Absent}
    BY <1>3 DEF PresenceTold
  <2>3. /\ ref' \in Views /\ ref'.mine = ref.mine /\ ref'.id = ref.id
        /\ f.conn \in Anyone => ref'.others[f.conn] = PresenceTold(f)
        /\ \A d \in Anyone \ {f.conn} : ref'.others[d] = ref.others[d]
    BY <1>1, <2>1, <2>2 DEF Views
  <2>4. InFirstRoom => f.conn # self /\ ref.id = self
    BY <1>6, <1>9
  <2>5. InFirstRoom => self \in Anyone \ {f.conn}
    BY <1>6, <2>4 DEF Anyone
  <2>6. \A c \in Anyone : AboutMember(f, c) <=> f.conn = c
    BY <1>9 DEF AboutMember
  <2>7. Spoken
    BY <1>1, <1>6, <2>3, <2>4, <2>5, <2>6 DEF ShownOf
  <2> QED
    BY <1>2, <1>4, <2>3, <2>7 DEF f
<1>10. CASE f.type \in {"yjs-update", "corrupt"}
  <2>1. ref' = ref /\ \A c \in Anyone : ~AboutMember(f, c)
    BY <1>5, <1>10 DEF AboutMember
  <2>2. InFirstRoom => ref.id = self
    BY <1>6, <1>10
  <2> QED
    BY <1>1, <1>2, <1>4, <1>6, <2>1, <2>2 DEF ShownOf, f
<1> QED
  BY <1>3, <1>7, <1>8, <1>9, <1>10

LEMMA DeliverFrameKeeps == ASSUME ClientIInv, DeliverFrame PROVE ClientIInv'
<1> USE ClientAssumption
<1>0. /\ UNCHANGED <<roomNo, self, loop, members, announced, up, view, patched, refused>>
      /\ loop = "open" /\ Len(down) \in Nat \ {0}
      /\ Len(down') = Len(down) - 1
      /\ \A i \in 1 .. Len(down') : down'[i] = down[i + 1]
  BY FrameTaken DEF DeliverFrame
<1>1. ClientTyped'
  BY <1>0, FrameTaken DEF ClientIInv, ClientTyped
<1>2. BeforeRoom'
  BY <1>0 DEF ClientIInv, BeforeRoom
<1>3. NamedFirst'
  <2> SUFFICES ASSUME InFirstRoom PROVE NamedFirst'
    BY <1>0 DEF NamedFirst, InFirstRoom
  <2>1. self \in Selves /\ self # Absent /\ ref'.id = self /\ ref'.others[self] = Absent
    BY FrameTaken DEF ClientIInv, NamedFirst
  <2>2. \A i \in 1 .. Len(down') : i + 1 \in 1 .. Len(down) /\ i + 1 # 1
    BY <1>0
  <2>3. \A i \in 1 .. Len(down') : ~(down'[i].type = "joined" /\ down'[i].conn = self)
    BY <1>0, <2>2 DEF ClientIInv, NamedFirst
  <2>4. \A i \in 1 .. Len(down') : down'[i].type = "left" => down'[i].conn \in Peers
    BY <1>0, <2>2 DEF ClientIInv, NamedFirst
  <2> QED
    BY <1>0, <2>1, <2>3, <2>4 DEF NamedFirst
<1>4. WordsTold'
  <2> SUFFICES ASSUME InFirstRoom, NEW c \in Anyone PROVE LastTold(c)'
    BY <1>0 DEF WordsTold, InFirstRoom
  <2>1. /\ LastTold(c) /\ HeldOf(c)' = HeldOf(c)
        /\ ShownOf(c)' = IF AboutMember(down[1], c) THEN PresenceTold(down[1]) ELSE ShownOf(c)
    BY <1>0, FrameTaken DEF ClientIInv, WordsTold, HeldOf
  <2> HIDE DEF HeldOf, ShownOf, AboutMember, PresenceTold
  <2>2. \A i \in 1 .. Len(down') : i + 1 \in 1 .. Len(down)
    BY <1>0
  <2>3. \A j \in 1 .. Len(down) : j # 1 => j - 1 \in 1 .. Len(down') /\ down[j] = down'[j - 1]
    BY <1>0
  <2>4. ASSUME NEW i \in 1 .. Len(down'), AboutMember(down'[i], c),
               \A j \in 1 .. Len(down') : j > i => ~AboutMember(down'[j], c)
        PROVE  PresenceTold(down'[i]) = HeldOf(c)'
    <3>1. AboutMember(down[i + 1], c)
      BY <1>0, <2>4
    <3>2. ASSUME NEW j \in 1 .. Len(down), j > i + 1 PROVE ~AboutMember(down[j], c)
      <4>1. j # 1 /\ j - 1 > i
        BY <3>2
      <4> QED
        BY <2>3, <2>4, <4>1
    <3>3. PresenceTold(down[i + 1]) = HeldOf(c)
      BY <2>1, <2>2, <3>1, <3>2 DEF LastTold
    <3> QED
      BY <1>0, <2>1, <3>3
  <2>5. ASSUME \A i \in 1 .. Len(down') : ~AboutMember(down'[i], c),
               c = self => up' = {} /\ ~refused'
        PROVE  ShownOf(c)' = HeldOf(c)'
    <3>1. \A j \in 1 .. Len(down) : j # 1 => ~AboutMember(down[j], c)
      BY <2>3, <2>5
    <3>2. 1 \in 1 .. Len(down)
      BY <1>0
    <3>3. CASE AboutMember(down[1], c)
      <4>1. \A j \in 1 .. Len(down) : j > 1 => ~AboutMember(down[j], c)
        BY <3>1
      <4>2. PresenceTold(down[1]) = HeldOf(c)
        BY <2>1, <3>2, <3>3, <4>1 DEF LastTold
      <4> QED
        BY <2>1, <3>3, <4>2
    <3>4. CASE ~AboutMember(down[1], c)
      <4>1. ShownOf(c) = HeldOf(c)
        BY <1>0, <2>1, <2>5, <3>1, <3>4 DEF LastTold
      <4> QED
        BY <2>1, <3>4, <4>1
    <3> QED
      BY <3>3, <3>4
  <2> QED
    BY <1>0, <2>4, <2>5 DEF LastTold
<1>5. EditsKept'
  <2>1. /\ EditsKept /\ ydoc \in Documents /\ 1 \in 1 .. Len(down)
        /\ ydoc' = IF OnTheWire(down[1]) THEN ApplyYjs(down[1]) ELSE ydoc
    BY <1>0 DEF ClientIInv, ClientTyped, DeliverFrame, OnTheWire
  <2>2. \A i \in 1 .. Len(down') : i + 1 \in 1 .. Len(down)
    BY <1>0
  <2>3. /\ ydoc'.server = ydoc.server /\ ydoc'.out = ydoc.out /\ ydoc'.sent = ydoc.sent
        /\ \/ ydoc'.mine = ydoc.mine /\ ydoc'.dropped = ydoc.dropped /\ ~OnTheWire(down[1])
           \/ ydoc'.mine = ydoc.mine /\ ydoc'.dropped /\ OnTheWire(down[1])
           \/ /\ ydoc'.mine = ydoc.mine \cup {"theirs"} /\ ydoc'.dropped = ydoc.dropped
              /\ OnTheWire(down[1])
    BY <2>1 DEF ApplyYjs, OnUpdate, Documents
  <2>4. OnTheWire(down[1]) => "theirs" \in ydoc.server
    BY <2>1 DEF EditsKept
  <2>5. \A i \in 1 .. Len(down') : OnTheWire(down'[i]) => "theirs" \in ydoc'.server
    BY <1>0, <2>1, <2>2, <2>3 DEF EditsKept
  <2>6. InFirstRoom' /\ "theirs" \in ydoc'.server =>
           \/ "theirs" \in ydoc'.mine \/ ydoc'.dropped
           \/ \E i \in 1 .. Len(down') : OnTheWire(down'[i])
    <3> SUFFICES ASSUME InFirstRoom, "theirs" \in ydoc.server, "theirs" \notin ydoc'.mine,
                        ~ydoc'.dropped
                 PROVE  \E i \in 1 .. Len(down') : OnTheWire(down'[i])
      BY <1>0, <2>3 DEF InFirstRoom
    <3>1. ~OnTheWire(down[1]) /\ "theirs" \notin ydoc.mine /\ ~ydoc.dropped
      BY <2>3
    <3>2. PICK j \in 1 .. Len(down) : OnTheWire(down[j])
      BY <2>1, <3>1 DEF EditsKept
    <3>3. j # 1
      BY <3>1, <3>2
    <3>4. j - 1 \in 1 .. Len(down') /\ down'[j - 1] = down[j]
      BY <1>0, <3>3
    <3> QED
      BY <3>2, <3>4
  <2> QED
    BY <1>0, <2>1, <2>3, <2>4, <2>5, <2>6 DEF EditsKept
<1> QED
  BY <1>1, <1>2, <1>3, <1>4, <1>5 DEF ClientIInv

----------------------------------------------------------------------------
(* The first frame of a room is about this client, with the presence it    *)
(* came with.                                                              *)
LEMMA OpenRoomKeeps == ASSUME ClientIInv, OpenRoom PROVE ClientIInv'
<1> USE ClientAssumption
<1>1. PICK c \in Selves \ {self} :
        /\ self' = c
        /\ members' = [m \in Anyone |-> IF m = c /\ Fits(ref.mine) THEN ref.mine
                          ELSE IF m \in Peers /\ roomNo = 0 THEN members[m] ELSE Absent]
        /\ down' = IF Fits(ref.mine) THEN <<Frame("joined", c, ref.mine)>> ELSE <<>>
  BY DEF OpenRoom
<1>2. /\ roomNo' = roomNo + 1 /\ roomNo \in Nat
      /\ loop' = IF Fits(ref.mine) THEN "open" ELSE "ended"
      /\ announced' = {} /\ up' = {} /\ UNCHANGED <<ref, view, patched, refused>>
  BY DEF OpenRoom, StateUnchanged, ClientIInv, ClientTyped
<1>3. ref \in Views /\ ref.mine \in Presence /\ c \in Anyone /\ c # Absent
  BY DEF ClientIInv, ClientTyped, Views, Anyone
<1>4. /\ ydoc' \in Documents /\ ydoc'.mine = ydoc.mine /\ ydoc'.server = ydoc.server
      /\ ydoc'.sent = ydoc.sent /\ ydoc'.out = ydoc.out /\ ydoc'.dropped = ydoc.dropped
  BY DEF OpenRoom, ClientIInv, ClientTyped, Documents
<1> DEFINE first == Frame("joined", c, ref.mine)
<1>5. /\ first \in ClientFrames /\ AboutMember(first, c) /\ first.type = "joined"
      /\ first.conn = c /\ PresenceTold(first) = ref.mine
  BY <1>3, FrameFits DEF Frame
<1> HIDE DEF first
<1>6. /\ down' \in Seq(ClientFrames)
      /\ loop' = "open" => Len(down') = 1 /\ down'[1] = first
      /\ \A i \in 1 .. Len(down') : i = 1 /\ down'[i] = first
  <2>1. CASE Fits(ref.mine)
    <3>1. down' = <<first>>
      BY <1>1, <2>1 DEF first
    <3> QED
      BY <1>5, <3>1
  <2>2. CASE ~Fits(ref.mine)
    <3>1. down' = <<>> /\ loop' # "open"
      BY <1>1, <1>2, <2>2
    <3> QED
      BY <3>1
  <2> QED
    BY <2>1, <2>2
<1>7. members' \in [Anyone -> Presence \cup {Absent}]
  BY <1>1, <1>3 DEF ClientIInv, ClientTyped
<1>8. ClientTyped'
  <2>1. self' \in Selves /\ roomNo' \in Nat /\ announced' \subseteq Peers
    BY <1>1, <1>2
  <2>2. loop' \in {"idle", "open", "ended", "gone", "closed"} /\ up' \subseteq [n : Nat, patch : Patches]
    BY <1>2
  <2> QED
    BY <1>2, <1>4, <1>6, <1>7, <2>1, <2>2 DEF ClientIInv, ClientTyped
<1>9. BeforeRoom'
  BY <1>2 DEF BeforeRoom
<1>10. InFirstRoom' => /\ roomNo = 0 /\ ref = Nowhere /\ ydoc.mine = {} /\ ydoc.server = {}
                       /\ ydoc.out = {} /\ Fits(ref.mine) /\ members'[c] = ref.mine
  BY <1>1, <1>2, <1>3 DEF InFirstRoom, ClientIInv, BeforeRoom
<1>11. NamedFirst'
  <2> SUFFICES ASSUME InFirstRoom' PROVE NamedFirst'
    BY DEF NamedFirst
  <2>1. ref'.id = Absent /\ ref'.others[c] = Absent
    BY <1>2, <1>3, <1>10 DEF Nowhere
  <2>2. loop' = "open"
    BY DEF InFirstRoom
  <2> QED
    BY <1>1, <1>5, <1>6, <2>1, <2>2 DEF NamedFirst
<1>12. WordsTold'
  <2> SUFFICES ASSUME InFirstRoom', NEW d \in Anyone PROVE LastTold(d)'
    BY DEF WordsTold
  <2>1. loop' = "open" /\ \A i \in 1 .. Len(down') : i = 1
    BY <1>6 DEF InFirstRoom
  <2>2. CASE d = c
    <3>1. HeldOf(d)' = ref.mine
      BY <1>1, <1>10, <2>2 DEF HeldOf
    <3> HIDE DEF AboutMember, PresenceTold, HeldOf
    <3>2. Len(down') = 1 /\ down'[1] = first
      BY <1>6, <2>1
    <3>3. \A i \in 1 .. Len(down') : PresenceTold(down'[i]) = HeldOf(d)'
      BY <1>5, <1>6, <3>1
    <3>4. AboutMember(down'[1], d) /\ 1 \in 1 .. Len(down')
      BY <1>5, <2>2, <3>2
    <3> QED
      BY <3>3, <3>4 DEF LastTold
  <2>3. CASE d # c
    <3>1. HeldOf(d)' = Absent /\ ShownOf(d)' = Absent
      BY <1>1, <1>2, <1>10, <2>3 DEF HeldOf, ShownOf, Nowhere
    <3>2. ~AboutMember(first, d)
      BY <1>5, <2>3 DEF AboutMember
    <3> QED
      BY <1>6, <3>1, <3>2 DEF LastTold
  <2> QED
    BY <2>2, <2>3
<1>13. EditsKept'
  <2>1. ~OnTheWire(first)
    BY <1>5 DEF OnTheWire
  <2>2. \A i \in 1 .. Len(down') : ~OnTheWire(down'[i])
    BY <1>6, <2>1
  <2>3. roomNo' <= 1 => roomNo = 0
    BY <1>2
  <2> QED
    BY <1>4, <1>10, <2>2, <2>3 DEF EditsKept, ClientIInv, BeforeRoom
<1> QED
  BY <1>8, <1>9, <1>11, <1>12, <1>13 DEF ClientIInv

LEMMA RenderKeeps == ASSUME ClientIInv, Render PROVE ClientIInv'
<1>1. UNCHANGED <<roomNo, self, loop, members, announced, down, up, ref, patched, refused, ydoc>>
      /\ view' = ref
  BY DEF Render
<1> QED
  BY <1>1 DEF ClientIInv, ClientTyped, BeforeRoom, NamedFirst, WordsTold, LastTold, EditsKept,
              InFirstRoom, HeldOf, ShownOf

(* A patch is on its way, or it was lost: the presence shown here of this  *)
(* client need not be the one of the server until it comes back.           *)
LEMMA EmitPatchKeeps ==
    ASSUME PromptServer, ClientIInv, NEW patch \in Patches, NEW sends \in BOOLEAN,
           EmitPatch(patch, sends)
    PROVE  ClientIInv'
<1>1. /\ UNCHANGED <<roomNo, self, loop, members, announced, down, ydoc>>
      /\ loop \in {"open", "ended"} /\ view = ref /\ ref' = Merged(patch) /\ view' = ref'
      /\ up' = (IF sends THEN up \cup {[n |-> patched.me, patch |-> patch]} ELSE up)
      /\ refused' = (refused \/ ~sends)
      /\ patched' = [patched EXCEPT !.me = @ + 1]
  BY DEF EmitPatch
<1>2. ref \in Views /\ ref' = [ref EXCEPT !.mine[patch.key] = patch.value]
  BY <1>1 DEF ClientIInv, ClientTyped, Merged
<1>3. ref' \in Views /\ ref'.id = ref.id /\ ref'.others = ref.others
  BY <1>2, PatchEdit
<1>4. ClientTyped'
  <2>1. up' \subseteq [n : Nat, patch : Patches] /\ patched' \in [me : Nat, peer : Nat]
    BY <1>1 DEF ClientIInv, ClientTyped
  <2>2. refused' \in BOOLEAN
    BY <1>1 DEF ClientIInv, ClientTyped
  <2> QED
    BY <1>1, <1>3, <2>1, <2>2 DEF ClientIInv, ClientTyped
<1>5. BeforeRoom' /\ EditsKept'
  BY <1>1 DEF ClientIInv, BeforeRoom, EditsKept, InFirstRoom
<1>6. NamedFirst'
  BY <1>1, <1>3 DEF ClientIInv, NamedFirst, InFirstRoom
<1>7. WordsTold'
  <2> SUFFICES ASSUME InFirstRoom, NEW c \in Anyone PROVE LastTold(c)'
    BY <1>1 DEF WordsTold, InFirstRoom
  <2>1. LastTold(c) /\ HeldOf(c)' = HeldOf(c)
    BY <1>1 DEF ClientIInv, WordsTold, HeldOf
  <2>2. c # self => ShownOf(c)' = ShownOf(c)
    BY <1>1, <1>3 DEF ShownOf
  <2>3. ~(up' = {} /\ ~refused')
    BY <1>1
  <2> QED
    BY <1>1, <2>1, <2>2, <2>3 DEF LastTold
<1> QED
  BY <1>4, <1>5, <1>6, <1>7 DEF ClientIInv

(* What changes the document alone says nothing of the members.            *)
LEMMA DocumentOnly ==
    ASSUME ClientIInv, ydoc' \in Documents, EditsKept', BeforeRoom',
           patched' \in [me : Nat, peer : Nat],
           UNCHANGED <<roomNo, self, loop, members, announced, down, up, ref, view, refused>>
    PROVE  ClientIInv'
BY DEF ClientIInv, ClientTyped, NamedFirst, WordsTold, LastTold, InFirstRoom, HeldOf, ShownOf

LEMMA LocalEditKeeps == ASSUME ClientIInv, LocalEdit PROVE ClientIInv'
<1>1. ydoc \in Documents /\ roomNo # 0
  BY DEF ClientIInv, ClientTyped, BeforeRoom, LocalEdit
<1>2. /\ ydoc' \in Documents /\ ydoc'.mine = ydoc.mine \cup {"mine"}
      /\ ydoc'.sent = ydoc.sent \cup {"mine"} /\ ydoc'.server = ydoc.server
      /\ ydoc'.out = ydoc.out \cup ({"mine"} \ ydoc.sent) /\ ydoc'.dropped = ydoc.dropped
      /\ "mine" \notin ydoc.mine
  BY <1>1 DEF LocalEdit, OnUpdate, Documents, Edits
<1>3. /\ UNCHANGED <<roomNo, self, loop, members, announced, down, up, ref, view, refused>>
      /\ patched' \in [me : Nat, peer : Nat]
  BY DEF LocalEdit, ClientIInv, ClientTyped
<1>4. EditsKept'
  BY <1>2, <1>3 DEF ClientIInv, EditsKept, InFirstRoom
<1> QED
  BY <1>1, <1>2, <1>3, <1>4, DocumentOnly DEF BeforeRoom

LEMMA DispatchYjsKeeps ==
    ASSUME ClientIInv, NEW edit \in ydoc.out, NEW arrives \in BOOLEAN, DispatchYjs(edit, arrives)
    PROVE  ClientIInv'
<1>1. ydoc \in Documents /\ roomNo # 0
  BY DEF ClientIInv, ClientTyped, BeforeRoom
<1>2. edit = "mine"
  BY <1>1 DEF ClientIInv, EditsKept, Documents, Edits
<1>3. /\ ydoc' \in Documents /\ ydoc'.mine = ydoc.mine /\ ydoc'.sent = ydoc.sent
      /\ ydoc'.out = ydoc.out \ {"mine"}
      /\ \/ ydoc'.server = ydoc.server \cup {"mine"} /\ ydoc'.dropped = ydoc.dropped
         \/ ydoc'.server = ydoc.server /\ ydoc'.dropped
  BY <1>1, <1>2 DEF DispatchYjs, Documents, Edits
<1>4. /\ UNCHANGED <<roomNo, self, loop, members, announced, down, up, ref, view, refused>>
      /\ patched' \in [me : Nat, peer : Nat]
  BY DEF DispatchYjs, StateUnchanged, ClientIInv, ClientTyped
<1>5. "mine" \in ydoc.mine
  BY <1>2 DEF ClientIInv, EditsKept
<1>6. EditsKept'
  BY <1>3, <1>4, <1>5 DEF ClientIInv, EditsKept, InFirstRoom
<1> QED
  BY <1>1, <1>3, <1>4, <1>6, DocumentOnly DEF BeforeRoom

(* The edit of a peer is at the server, and its frame is on its way.       *)
LEMMA PeerEditKeeps ==
    ASSUME ClientIInv, NEW type \in {"yjs-update", "corrupt"}, PeerEdit(type)
    PROVE  ClientIInv'
<1> USE ClientAssumption
<1> DEFINE frame == Frame(type, Absent, EmptyPresence)
<1>1. /\ loop \in {"open", "gone"} /\ roomNo # 0 /\ ydoc \in Documents
      /\ UNCHANGED <<roomNo, self, loop, members, announced, up, ref, view, refused>>
      /\ patched' \in [me : Nat, peer : Nat] /\ down' = Receives(frame)
  BY DEF PeerEdit, Receives, ClientIInv, ClientTyped, BeforeRoom
<1>2. /\ frame \in ClientFrames /\ OnTheWire(frame) /\ frame.type \notin {"joined", "left"}
      /\ \A c \in Anyone : ~AboutMember(frame, c)
  BY DEF Frame, ClientFrames, EmptyPresence, Presence, OnTheWire, AboutMember
<1> HIDE DEF frame
<1>3. /\ Len(down') = Len(down) + 1 /\ down'[Len(down) + 1] = frame /\ Len(down) \in Nat
      /\ \A i \in 1 .. Len(down) : down'[i] = down[i]
      /\ down' \in Seq(ClientFrames)
  BY <1>1, <1>2, FrameSent, ClientFacts DEF ClientIInv
<1>4. /\ ydoc' \in Documents /\ ydoc'.mine = ydoc.mine /\ ydoc'.sent = ydoc.sent
      /\ ydoc'.server = ydoc.server \cup {"theirs"} /\ ydoc'.out = ydoc.out
      /\ ydoc'.dropped = ydoc.dropped
  BY <1>1 DEF PeerEdit, Documents, Edits
<1>5. ClientTyped'
  BY <1>1, <1>3, <1>4 DEF ClientIInv, ClientTyped
<1>6. BeforeRoom' /\ NamedFirst'
  BY <1>1, <1>2, NamingKept DEF BeforeRoom
<1>7. WordsTold'
  <2> SUFFICES ASSUME InFirstRoom, NEW c \in Anyone PROVE LastTold(c)'
    BY <1>1 DEF WordsTold, InFirstRoom
  <2>1. LastTold(c) /\ HeldOf(c)' = HeldOf(c) /\ ShownOf(c)' = ShownOf(c)
    BY <1>1 DEF ClientIInv, WordsTold, HeldOf, ShownOf
  <2>2. \A i \in 1 .. Len(down') : i \in 1 .. Len(down) \/ i = Len(down) + 1
    BY <1>3
  <2>3. \A i \in 1 .. Len(down) : i \in 1 .. Len(down') /\ i # Len(down) + 1
    BY <1>3
  <2> QED
    BY <1>1, <1>2, <1>3, <2>1, <2>2, <2>3 DEF LastTold
<1>8. EditsKept'
  <2>1. Len(down) + 1 \in 1 .. Len(down')
    BY <1>3
  <2>2. "theirs" \in ydoc'.server
    BY <1>4
  <2> QED
    BY <1>1, <1>2, <1>3, <1>4, <2>1, <2>2 DEF ClientIInv, EditsKept
<1> QED
  BY <1>5, <1>6, <1>7, <1>8 DEF ClientIInv

(* A stream that ended tells nothing any more.                             *)
LEMMA StreamOver ==
    ASSUME ClientIInv, roomNo # 0, loop' \in {"ended", "gone", "closed"},
           down' \in {<<>>, down}, members' \in [Anyone -> Presence \cup {Absent}],
           UNCHANGED <<roomNo, self, announced, up, ref, view, patched, refused, ydoc>>
    PROVE  ClientIInv'
<1>1. ClientTyped'
  <2>1. down' \in Seq(ClientFrames)
    <3>1. down \in Seq(ClientFrames) /\ <<>> \in Seq(ClientFrames)
      BY DEF ClientIInv, ClientTyped
    <3> QED
      BY <3>1
  <2>2. loop' \in {"idle", "open", "ended", "gone", "closed"}
    OBVIOUS
  <2> QED
    BY <2>1, <2>2 DEF ClientIInv, ClientTyped
<1>2. BeforeRoom' /\ NamedFirst' /\ WordsTold'
  BY DEF BeforeRoom, NamedFirst, WordsTold, InFirstRoom
<1>3. EditsKept'
  BY DEF ClientIInv, EditsKept, InFirstRoom
<1> QED
  BY <1>1, <1>2, <1>3 DEF ClientIInv

LEMMA EndingKeeps ==
    ASSUME ClientIInv, StreamEnds \/ UnmountRoom \/ LoopReturns PROVE ClientIInv'
<1>1. roomNo # 0 /\ loop' \in {"ended", "gone", "closed"} /\ down' \in {<<>>, down}
  BY DEF StreamEnds, UnmountRoom, LoopReturns, ClientIInv, BeforeRoom
<1>2. members' \in [Anyone -> Presence \cup {Absent}]
  BY DEF StreamEnds, UnmountRoom, LoopReturns, ClientIInv, ClientTyped
<1>3. UNCHANGED <<roomNo, self, announced, up, ref, view, patched, refused, ydoc>>
  BY DEF StreamEnds, UnmountRoom, LoopReturns, StateUnchanged
<1> QED
  BY <1>1, <1>2, <1>3, StreamOver

----------------------------------------------------------------------------
LEMMA ClientNextKeeps ==
    ASSUME PromptServer, ClientIInv, [ClientNext]_clientVars PROVE ClientIInv'
<1>1. CASE ClientNext
  BY <1>1, OpenRoomKeeps, PeerJoinsKeeps, PeerLeavesKeeps, PeerChangesKeeps, DeliverFrameKeeps,
     RenderKeeps, EmitPatchKeeps, DispatchPresenceKeeps, LocalEditKeeps, DispatchYjsKeeps,
     PeerEditKeeps, EndingKeeps
     DEF ClientNext
<1>2. CASE UNCHANGED clientVars
  BY <1>2 DEF clientVars, ClientIInv, ClientTyped, BeforeRoom, NamedFirst, WordsTold, LastTold,
              EditsKept, InFirstRoom, HeldOf, ShownOf
<1> QED
  BY <1>1, <1>2

(* Nothing under way: the last words have been heard.                      *)
LEMMA ClientInvImplies == ASSUME ClientIInv PROVE ClientKept
<1> USE ClientAssumption
<1>1. ClientTypeOK
  <2>1. DOMAIN members = Anyone /\ {ref.id, view.id} \subseteq Anyone \cup {Absent}
    BY DEF ClientIInv, ClientTyped, Views
  <2>2. \A i \in 1 .. Len(down) :
          down[i].type \in {"joined", "left", "presence-changed", "yjs-update", "corrupt"}
    BY ClientFacts DEF ClientIInv, ClientFrames
  <2>3. /\ ydoc.mine \cup ydoc.server \subseteq {"mine", "theirs"}
        /\ ydoc.out \subseteq ydoc.sent /\ ydoc.storage \in {"yjs", "none"}
    BY DEF ClientIInv, ClientTyped, Documents, Edits, EditsKept
  <2> QED
    BY <2>1, <2>2, <2>3 DEF ClientTypeOK, ClientIInv, ClientTyped
<1>2. ViewConverges
  <2> SUFFICES ASSUME Undisturbed, roomNo = 1
               PROVE  /\ view.id = self
                      /\ ~refused => view.mine = members[self]
                      /\ \A c \in Anyone :
                            view.others[c] = IF c \in announced THEN members[c] ELSE Absent
    BY DEF ViewConverges
  <2>1. view = ref /\ up = {} /\ Len(down) = 0 /\ InFirstRoom
    BY DEF Undisturbed, InFirstRoom
  <2>2. self \in Selves /\ ref.id = self /\ ref.others[self] = Absent
    BY <2>1 DEF ClientIInv, NamedFirst
  <2>3. ASSUME NEW c \in Anyone, c = self => ~refused PROVE ShownOf(c) = HeldOf(c)
    BY <2>1, <2>3 DEF ClientIInv, WordsTold, LastTold
  <2>4. self \in Anyone /\ announced \subseteq Peers /\ self \notin announced
    BY <2>2 DEF Anyone, ClientIInv, ClientTyped
  <2> QED
    BY <2>1, <2>2, <2>3, <2>4 DEF ShownOf, HeldOf
<1>3. DocConverges
  <2>1. ydoc.sent = ydoc.mine \ {"theirs"}
    BY DEF ClientIInv, EditsKept
  <2>2. ASSUME Undisturbed, ydoc.out = {}, ~ydoc.dropped, roomNo = 1 PROVE ydoc.mine = ydoc.server
    <3>1. Len(down) = 0 /\ InFirstRoom
      BY <2>2 DEF Undisturbed, InFirstRoom
    <3>2. ydoc.mine \subseteq Edits /\ ydoc.server \subseteq Edits
      BY ClientFacts DEF ClientIInv
    <3>3. "mine" \in ydoc.mine <=> "mine" \in ydoc.server
      BY <2>2 DEF ClientIInv, EditsKept
    <3>4. "theirs" \in ydoc.mine <=> "theirs" \in ydoc.server
      BY <2>2, <3>1 DEF ClientIInv, EditsKept
    <3> QED
      BY <3>2, <3>3, <3>4 DEF Edits
  <2> QED
    BY <2>1, <2>2 DEF DocConverges
<1> QED
  BY <1>1, <1>2, <1>3 DEF ClientKept

(* In its first room a client shows, once nothing is under way, what the   *)
(* server holds of every member that was announced and of itself, unless a *)
(* patch was lost or refused, and its document has the edits of the room's *)
(* (react/index.ts:256-290, 405-480), when React renders before the user   *)
(* acts again.                                                             *)
THEOREM ClientShowsRoom == ASSUME PromptServer PROVE ClientSpec => []ClientKept
<1>1. ClientInit => ClientIInv
  BY ClientInitHolds
<1>2. ClientIInv /\ [ClientNext]_clientVars => ClientIInv'
  BY ClientNextKeeps
<1>3. ClientIInv => ClientKept
  BY ClientInvImplies
<1> QED
  BY <1>1, <1>2, <1>3, PTL DEF ClientSpec

----------------------------------------------------------------------------
(* A form over a server action, for any number of submits, edits, resets   *)
(* and answers, over any lists of values.                                  *)

(* A body is a sequence of entries.                                        *)
Entries == [key : Paths, text : STRING]

LEMMA HeldFacts ==
    ASSUME NEW v \in HeldValues
    PROVE  /\ v.name \in STRING /\ v.city \in STRING /\ v.city \in Cities
           /\ v.tags \in Seq(STRING) /\ Len(v.tags) \in Nat
           /\ v.photos \in Seq(STRING) /\ Len(v.photos) \in Nat
<1>1. v.name \in Names /\ v.tags \in TagLists /\ v.city \in Cities /\ v.photos \in FileLists
  BY DEF HeldValues
<1>2. v.name \in STRING /\ v.city \in STRING
  BY <1>1, FormAssumption
<1>3. v.tags \in Seq(STRING) /\ v.photos \in Seq(STRING)
  BY <1>1, FormAssumption, Zenon
<1>4. \A s \in Seq(STRING) : Len(s) \in Nat
  OBVIOUS
<1> QED
  BY <1>1, <1>2, <1>3, <1>4

(* The entries of a path stand together, n of them after the first lo.     *)
Block(body, path, lo, n) == EntriesAt(body, path) = lo + 1 .. lo + n

(* Their texts.                                                            *)
LEMMA BlockTexts ==
    ASSUME NEW body, NEW path, NEW lo \in Nat, NEW n \in Nat,
           Block(body, path, lo, n)
    PROVE  TextsAt(body, path) = [k \in 1 .. n |-> body[lo + k].text]
<1> DEFINE at == lo + 1 .. lo + n
           nth(k) == CHOOSE i \in at : Cardinality({j \in at : j <= i}) = k
<1>1. Cardinality(at) = n
  BY FS_Interval
<1>2. ASSUME NEW i \in at PROVE Cardinality({j \in at : j <= i}) = i - lo
  <2>1. {j \in at : j <= i} = lo + 1 .. i
    OBVIOUS
  <2>2. Cardinality(lo + 1 .. i) = i - lo
    BY FS_Interval
  <2> QED
    BY <2>1, <2>2
<1>3. ASSUME NEW k \in 1 .. n PROVE nth(k) = lo + k
  <2>1. lo + k \in at /\ (lo + k) - lo = k
    OBVIOUS
  <2>2. \A i \in at : i - lo = k => i = lo + k
    OBVIOUS
  <2> HIDE DEF at
  <2>3. \E i \in at : Cardinality({j \in at : j <= i}) = k
    BY <1>2, <2>1
  <2>4. nth(k) \in at /\ Cardinality({j \in at : j <= nth(k)}) = k
    BY <2>3
  <2> HIDE DEF nth
  <2> QED
    BY <1>2, <2>2, <2>4
<1>4. TextsAt(body, path) = [k \in 1 .. Cardinality(at) |-> body[nth(k)].text]
  BY DEF TextsAt, Block
<1> HIDE DEF at, nth
<1> QED
  BY <1>1, <1>3, <1>4

(* The four parts of a body, one after the other.                          *)
LEMMA BodyFacts ==
    ASSUME NEW v \in HeldValues
    PROVE  LET body == ValuesToFormData(v)
               k == Len(v.tags)
               c == IF v.city = NoCity THEN 0 ELSE 1
               m == Len(v.photos)
           IN  /\ body \in Seq(Entries) /\ Len(body) = ((1 + k) + c) + m
               /\ body[1] = Entry(<<"name">>, v.name)
               /\ \A i \in 1 .. k : body[1 + i] = Entry(<<"tags">>, v.tags[i])
               /\ c = 1 => body[k + 2] = Entry(<<"home", "city">>, v.city)
               /\ \A i \in 1 .. m : body[((1 + k) + c) + i] = Entry(<<"photos">>, v.photos[i])
<1> DEFINE k == Len(v.tags)
           c == IF v.city = NoCity THEN 0 ELSE 1
           m == Len(v.photos)
           p1 == EncodeScalar(<<"name">>, v.name)
           p2 == AppendArray(<<"tags">>, v.tags)
           p3 == AppendObject(<<"home", "city">>, v.city)
           p4 == AppendArray(<<"photos">>, v.photos)
           b2 == p1 \o p2
           b3 == b2 \o p3
           b4 == b3 \o p4
<1>1. ASSUME NEW path \in Paths, NEW t \in STRING PROVE Entry(path, t) \in Entries
  BY DEF Entry, Entries
<1>2. k \in Nat /\ m \in Nat /\ c \in {0, 1}
  BY HeldFacts
<1>3. p1 \in Seq(Entries) /\ Len(p1) = 1 /\ p1[1] = Entry(<<"name">>, v.name)
  <2>1. Entry(<<"name">>, v.name) \in Entries
    BY <1>1, HeldFacts DEF Paths
  <2> QED
    BY <2>1 DEF EncodeScalar
<1>4. ASSUME NEW path \in Paths, NEW items \in Seq(STRING)
      PROVE  /\ AppendArray(path, items) \in Seq(Entries)
             /\ Len(AppendArray(path, items)) = Len(items)
             /\ \A i \in 1 .. Len(items) : AppendArray(path, items)[i] = Entry(path, items[i])
  <2>1. DOMAIN items = 1 .. Len(items) /\ Len(items) \in Nat
    OBVIOUS
  <2>2. ASSUME NEW i \in 1 .. Len(items) PROVE Entry(path, items[i]) \in Entries
    <3>1. items[i] \in STRING
      OBVIOUS
    <3> QED
      BY <1>1, <3>1
  <2>3. AppendArray(path, items) = [i \in 1 .. Len(items) |-> Entry(path, items[i])]
    BY <2>1 DEF AppendArray
  <2> QED
    BY <2>1, <2>2, <2>3
<1>5. /\ p2 \in Seq(Entries) /\ Len(p2) = k
      /\ \A i \in 1 .. k : p2[i] = Entry(<<"tags">>, v.tags[i])
  BY <1>4, HeldFacts DEF Paths
<1>6. p3 \in Seq(Entries) /\ Len(p3) = c /\ (c = 1 => p3[1] = Entry(<<"home", "city">>, v.city))
  <2>1. Entry(<<"home", "city">>, v.city) \in Entries
    BY <1>1, HeldFacts DEF Paths
  <2> QED
    BY <2>1 DEF AppendObject, EncodeScalar
<1>7. /\ p4 \in Seq(Entries) /\ Len(p4) = m
      /\ \A i \in 1 .. m : p4[i] = Entry(<<"photos">>, v.photos[i])
  BY <1>4, HeldFacts DEF Paths
<1>8. ValuesToFormData(v) = b4
  BY DEF ValuesToFormData
<1> HIDE DEF k, c, m, p1, p2, p3, p4
<1>9. /\ b2 \in Seq(Entries) /\ Len(b2) = Len(p1) + Len(p2)
      /\ \A i \in 1 .. Len(p1) + Len(p2) : b2[i] = IF i <= Len(p1) THEN p1[i] ELSE p2[i - Len(p1)]
  BY <1>3, <1>5, ConcatProperties
<1> HIDE DEF b2
<1>10. /\ b3 \in Seq(Entries) /\ Len(b3) = Len(b2) + Len(p3)
       /\ \A i \in 1 .. Len(b2) + Len(p3) : b3[i] = IF i <= Len(b2) THEN b2[i] ELSE p3[i - Len(b2)]
  <2>1. b2 \in Seq(Entries) /\ p3 \in Seq(Entries)
    BY <1>6, <1>9
  <2> QED
    BY <2>1, ConcatProperties
<1> HIDE DEF b3
<1>11. /\ b4 \in Seq(Entries) /\ Len(b4) = Len(b3) + Len(p4)
       /\ \A i \in 1 .. Len(b3) + Len(p4) : b4[i] = IF i <= Len(b3) THEN b3[i] ELSE p4[i - Len(b3)]
  <2>1. b3 \in Seq(Entries) /\ p4 \in Seq(Entries)
    BY <1>7, <1>10
  <2> QED
    BY <2>1, ConcatProperties
<1> HIDE DEF b4
<1>12. Len(b2) = 1 + k /\ Len(b3) = (1 + k) + c /\ Len(b4) = ((1 + k) + c) + m
  BY <1>3, <1>5, <1>6, <1>7, <1>9, <1>10, <1>11
<1>13. \A i \in 1 .. 1 + k : b4[i] = b2[i]
  BY <1>2, <1>7, <1>6, <1>10, <1>11, <1>12
<1>14. b4[1] = Entry(<<"name">>, v.name)
  BY <1>2, <1>3, <1>5, <1>9, <1>13
<1>15. ASSUME NEW i \in 1 .. k PROVE b4[1 + i] = Entry(<<"tags">>, v.tags[i])
  <2>1. 1 + i \in 1 .. 1 + k /\ ~(1 + i <= 1) /\ (1 + i) - 1 = i
    BY <1>2
  <2> QED
    BY <1>3, <1>5, <1>9, <1>13, <2>1
<1>16. ASSUME c = 1 PROVE b4[k + 2] = Entry(<<"home", "city">>, v.city)
  <2>1. k + 2 \in 1 .. (1 + k) + c /\ ~(k + 2 <= 1 + k) /\ (k + 2) - (1 + k) = 1
        /\ k + 2 \in 1 .. ((1 + k) + c) + m /\ k + 2 <= (1 + k) + c
    BY <1>2, <1>16
  <2> QED
    BY <1>6, <1>7, <1>10, <1>11, <1>12, <1>16, <2>1
<1>17. ASSUME NEW i \in 1 .. m PROVE b4[((1 + k) + c) + i] = Entry(<<"photos">>, v.photos[i])
  <2>1. ((1 + k) + c) + i \in 1 .. ((1 + k) + c) + m /\ ~(((1 + k) + c) + i <= (1 + k) + c)
        /\ (((1 + k) + c) + i) - ((1 + k) + c) = i
    BY <1>2
  <2> QED
    BY <1>7, <1>11, <1>12, <2>1
<1> QED
  BY <1>8, <1>11, <1>12, <1>14, <1>15, <1>16, <1>17 DEF k, c, m

LEMMA PathsDiffer ==
    /\ <<"name">> # <<"tags">> /\ <<"name">> # <<"photos">> /\ <<"tags">> # <<"photos">>
    /\ <<"name">> # <<"home", "city">> /\ <<"tags">> # <<"home", "city">>
    /\ <<"photos">> # <<"home", "city">>
OBVIOUS

(* What a multipart body says, read by the names of its entries.           *)
LEMMA RebuiltValues ==
    ASSUME NEW v \in HeldValues, v.form = "Array"
    PROVE  Rebuilt(ValuesToFormData(v)) = v /\ ValuesToFormData(v) # <<>>
<1> DEFINE body == ValuesToFormData(v)
           k == Len(v.tags)
           c == IF v.city = NoCity THEN 0 ELSE 1
           m == Len(v.photos)
           d == (1 + k) + c
<1>1. /\ body \in Seq(Entries) /\ Len(body) = d + m
      /\ body[1] = Entry(<<"name">>, v.name)
      /\ \A i \in 1 .. k : body[1 + i] = Entry(<<"tags">>, v.tags[i])
      /\ c = 1 => body[k + 2] = Entry(<<"home", "city">>, v.city)
      /\ \A i \in 1 .. m : body[d + i] = Entry(<<"photos">>, v.photos[i])
  BY BodyFacts
<1>2. k \in Nat /\ m \in Nat /\ c \in {0, 1} /\ (c = 0 <=> v.city = NoCity)
  BY HeldFacts
<1>3. /\ v.tags = [i \in 1 .. k |-> v.tags[i]] /\ v.photos = [i \in 1 .. m |-> v.photos[i]]
      /\ v = [name |-> v.name, tags |-> v.tags, city |-> v.city, photos |-> v.photos,
              form |-> "Array"]
  <2>1. v.tags \in Seq(STRING) /\ v.photos \in Seq(STRING)
    BY HeldFacts
  <2> QED
    BY <2>1 DEF HeldValues
<1> HIDE DEF body, k, c, m
<1>4. DOMAIN body = 1 .. d + m /\ d \in Nat
  BY <1>1, <1>2
<1>5. /\ body[1].key = <<"name">> /\ body[1].text = v.name
      /\ \A i \in 1 .. k : body[1 + i].key = <<"tags">> /\ body[1 + i].text = v.tags[i]
      /\ c = 1 => body[k + 2].key = <<"home", "city">> /\ body[k + 2].text = v.city
      /\ \A i \in 1 .. m : body[d + i].key = <<"photos">> /\ body[d + i].text = v.photos[i]
  <2>1. \A p, t : Entry(p, t).key = p /\ Entry(p, t).text = t
    BY DEF Entry
  <2> HIDE DEF d
  <2> QED
    BY <1>1, <2>1
<1>6. ASSUME NEW i \in 1 .. d + m
      PROVE  /\ i = 1 => body[i].key = <<"name">>
             /\ 1 < i /\ i <= 1 + k => body[i].key = <<"tags">>
             /\ 1 + k < i /\ i <= d => body[i].key = <<"home", "city">>
             /\ d < i => body[i].key = <<"photos">>
  <2>1. i = 1 => body[i].key = <<"name">>
    BY <1>5
  <2>2. ASSUME 1 < i, i <= 1 + k PROVE body[i].key = <<"tags">>
    <3>1. i - 1 \in 1 .. k /\ 1 + (i - 1) = i
      BY <1>2, <2>2
    <3> QED
      BY <1>5, <3>1
  <2>3. ASSUME 1 + k < i, i <= d PROVE body[i].key = <<"home", "city">>
    <3>1. c = 1 /\ i = k + 2
      BY <1>2, <2>3
    <3> QED
      BY <1>5, <3>1
  <2>4. ASSUME d < i PROVE body[i].key = <<"photos">>
    <3>1. i - d \in 1 .. m /\ d + (i - d) = i
      BY <1>2, <1>4, <2>4
    <3> HIDE DEF d
    <3> QED
      BY <1>5, <3>1
  <2> QED
    BY <2>1, <2>2, <2>3, <2>4
<1>7. \A i \in 1 .. d + m : \/ i = 1
                            \/ 1 < i /\ i <= 1 + k
                            \/ 1 + k < i /\ i <= d
                            \/ d < i
  BY <1>2
<1>8. Block(body, <<"name">>, 0, 1)
  <2>1. \A i \in 1 .. d + m : body[i].key = <<"name">> <=> i = 1
    BY <1>6, <1>7, PathsDiffer
  <2>2. 1 \in 1 .. d + m
    BY <1>2
  <2> QED
    BY <1>4, <2>1, <2>2 DEF EntriesAt, Block
<1>9. Block(body, <<"tags">>, 1, k)
  <2>1. \A i \in 1 .. d + m : body[i].key = <<"tags">> <=> 1 < i /\ i <= 1 + k
    BY <1>6, <1>7, PathsDiffer
  <2>2. \A i : i \in 1 + 1 .. 1 + k <=> i \in 1 .. d + m /\ 1 < i /\ i <= 1 + k
    BY <1>2
  <2> HIDE DEF d
  <2> QED
    BY <1>4, <2>1, <2>2 DEF EntriesAt, Block
<1>10. Block(body, <<"home", "city">>, 1 + k, c)
  <2>1. \A i \in 1 .. d + m : body[i].key = <<"home", "city">> <=> 1 + k < i /\ i <= d
    BY <1>6, <1>7, PathsDiffer
  <2>2. \A i : i \in (1 + k) + 1 .. (1 + k) + c <=> i \in 1 .. d + m /\ 1 + k < i /\ i <= d
    BY <1>2
  <2> HIDE DEF d
  <2> QED
    BY <1>4, <2>1, <2>2 DEF EntriesAt, Block
<1>11. Block(body, <<"photos">>, d, m)
  <2>1. \A i \in 1 .. d + m : body[i].key = <<"photos">> <=> d < i
    BY <1>6, <1>7, PathsDiffer
  <2>2. \A i : i \in d + 1 .. d + m <=> i \in 1 .. d + m /\ d < i
    BY <1>2
  <2> HIDE DEF d
  <2> QED
    BY <1>4, <2>1, <2>2 DEF EntriesAt, Block
<1>12. TextsAt(body, <<"name">>) = [i \in 1 .. 1 |-> body[0 + i].text]
  <2>1. 0 \in Nat /\ 1 \in Nat
    OBVIOUS
  <2> QED
    BY <1>8, <2>1, BlockTexts
<1>13. TextsAt(body, <<"tags">>) = [i \in 1 .. k |-> body[1 + i].text]
  <2>1. 1 \in Nat
    OBVIOUS
  <2> QED
    BY <1>2, <1>9, <2>1, BlockTexts
<1>14. TextsAt(body, <<"home", "city">>) = [i \in 1 .. c |-> body[(1 + k) + i].text]
  <2>1. 1 + k \in Nat /\ c \in Nat
    BY <1>2
  <2> QED
    BY <1>10, <2>1, BlockTexts
<1>15. TextsAt(body, <<"photos">>) = [i \in 1 .. m |-> body[d + i].text]
  <2> HIDE DEF d
  <2> QED
    BY <1>2, <1>4, <1>11, BlockTexts
<1>16. TextsAt(body, <<"name">>)[1] = v.name
  BY <1>5, <1>12
<1>17. TextsAt(body, <<"tags">>) = v.tags /\ TextsAt(body, <<"photos">>) = v.photos
  <2> HIDE DEF d
  <2> QED
    BY <1>3, <1>5, <1>13, <1>15
<1>18. (IF TextsAt(body, <<"home", "city">>) = <<>> THEN NoCity
        ELSE TextsAt(body, <<"home", "city">>)[1]) = v.city
  <2>1. CASE c = 0
    <3>1. TextsAt(body, <<"home", "city">>) = <<>>
      BY <1>14, <2>1
    <3> QED
      BY <1>2, <2>1, <3>1
  <2>2. CASE c = 1
    <3> DEFINE found == [i \in 1 .. 1 |-> body[(1 + k) + i].text]
    <3>1. TextsAt(body, <<"home", "city">>) = found
      BY <1>14, <2>2
    <3>2. found # <<>> /\ found[1] = body[(1 + k) + 1].text
      OBVIOUS
    <3>3. (1 + k) + 1 = k + 2
      BY <1>2
    <3> HIDE DEF found
    <3> QED
      BY <1>5, <2>2, <3>1, <3>2, <3>3
  <2> QED
    BY <1>2, <2>1, <2>2
<1>19. Rebuilt(body) = v
  <2> HIDE DEF d
  <2> QED
    BY <1>3, <1>16, <1>17, <1>18, Zenon DEF Rebuilt
<1>20. body # <<>>
  <2>1. Len(body) # 0
    BY <1>1, <1>2
  <2> QED
    BY <1>1, <2>1
<1> QED
  BY <1>19, <1>20 DEF body

----------------------------------------------------------------------------
(* The value of one field.                                                 *)
SameAt(path, v, w) ==
    /\ path = <<"name">> => v.name = w.name
    /\ path = <<"tags">> => v.tags = w.tags
    /\ path = <<"home", "city">> => v.city = w.city
    /\ path = <<"photos">> => v.photos = w.photos

Submission ==
    [status : {"idle", "pending", "settled"}, sent : HeldValues, body : Seq(Entries),
     stale : SUBSET (Paths \cup {<<"root">>}),
     result : {"none", "invalid", "onSuccess", "hydrated", "rethrown"}]

(* The parts of the form are of their types; a form that opens for         *)
(* multipart has a schema, one that never opened has no submit.            *)
FormOK ==
    /\ FormTypeOK
    /\ submits \in [SubmitIds -> Submission]
    /\ rendered \in [state : {"closed", "open", "threw", "gone"}, schema : BOOLEAN,
                     multipart : BOOLEAN]
    /\ rendered.state \in {"open", "gone"} /\ rendered.multipart => rendered.schema
    /\ rendered.state = "closed" => \A s \in SubmitIds : submits[s].status = "idle"

BodiesAreSent ==
    \A s \in SubmitIds : submits[s].body # <<>> =>
        /\ submits[s].sent.form = "Array"
        /\ submits[s].body = ValuesToFormData(submits[s].sent)

(* What was sent stands in the form, where nothing is stale since.         *)
PendingAreAboutValues ==
    \A s \in SubmitIds : submits[s].status = "pending" =>
        \A path \in Paths \ submits[s].stale : SameAt(path, submits[s].sent, values)

OneErrorEach == \A e, f \in errors : e.path = f.path => e = f

(* An error of an answer is about what that submit sent.                   *)
AnswersAreAboutValues ==
    \A e \in errors : e.from # 0 =>
        /\ submits[e.from].status # "idle"
        /\ e.path \in Paths /\ e.path \notin submits[e.from].stale
              => SameAt(e.path, submits[e.from].sent, values)

FormIInv ==
    /\ FormOK
    /\ BodiesAreSent
    /\ RefusedStaysHere
    /\ PendingAreAboutValues
    /\ OneErrorEach
    /\ AnswersAreAboutValues

ErrorRecord ==
    [path : Paths \cup {<<"root">>, <<"missing">>}, message : {"first", "required"},
     from : {0} \cup SubmitIds]

LEMMA BlankFacts ==
    ASSUME NEW type \in {"FileList", "Array"}
    PROVE  Blank0(type) \in HeldValues
BY FormAssumption DEF Blank0, HeldValues

LEMMA NoSubmitFacts == NoSubmit \in Submission /\ NoSubmit.status = "idle" /\ NoSubmit.body = <<>>
<1>1. <<>> \in Seq(Entries) /\ Blank0("Array") \in HeldValues
  BY BlankFacts
<1> QED
  BY <1>1 DEF NoSubmit, Submission

LEMMA FormStarts ==
    ASSUME FormInit
    PROVE  FormIInv
<1>1. Blank0("FileList") \in HeldValues
  BY BlankFacts
<1>2. FormOK
  BY <1>1, NoSubmitFacts DEF FormInit, FormOK, FormTypeOK
<1>3. BodiesAreSent /\ RefusedStaysHere /\ PendingAreAboutValues
  BY NoSubmitFacts DEF FormInit, BodiesAreSent, RefusedStaysHere, PendingAreAboutValues
<1> QED
  BY <1>2, <1>3 DEF FormInit, FormIInv, OneErrorEach, AnswersAreAboutValues

LEMMA RenderFormKeeps ==
    ASSUME FormIInv, NEW schema \in BOOLEAN, NEW multipart \in BOOLEAN, RenderForm(schema, multipart)
    PROVE  FormIInv'
<1>1. FormOK'
  BY DEF RenderForm, FormIInv, FormOK, FormTypeOK
<1>2. RefusedStaysHere'
  BY DEF RenderForm, FormIInv, FormOK, RefusedStaysHere
<1>3. BodiesAreSent' /\ PendingAreAboutValues' /\ OneErrorEach' /\ AnswersAreAboutValues'
  BY DEF RenderForm, FormIInv, BodiesAreSent, PendingAreAboutValues, OneErrorEach,
         AnswersAreAboutValues
<1> QED
  BY <1>1, <1>2, <1>3 DEF FormIInv

(* A field that changes makes stale what is under way.                     *)
LEMMA StaleFacts ==
    ASSUME FormOK, NEW paths \in SUBSET (Paths \cup {<<"root">>}), submits' = Stales(paths)
    PROVE  /\ submits' \in [SubmitIds -> Submission]
           /\ \A s \in SubmitIds :
                 /\ submits'[s].status = submits[s].status /\ submits'[s].sent = submits[s].sent
                 /\ submits'[s].body = submits[s].body
                 /\ submits[s].status = "pending"
                       => submits'[s].stale = submits[s].stale \cup paths
                 /\ submits[s].status # "pending" => submits'[s].stale = submits[s].stale
<1>1. \A s \in SubmitIds : submits[s] \in Submission
  BY DEF FormOK
<1>2. \A s \in SubmitIds : submits'[s] =
          IF submits[s].status = "pending" THEN [submits[s] EXCEPT !.stale = @ \cup paths]
          ELSE submits[s]
  BY DEF Stales
<1>3. DOMAIN submits' = SubmitIds /\ submits' = [s \in SubmitIds |-> submits'[s]]
  BY DEF Stales
<1>4. ASSUME NEW s \in SubmitIds, submits[s].status = "pending"
      PROVE  /\ submits'[s] \in Submission
             /\ submits'[s].status = submits[s].status /\ submits'[s].sent = submits[s].sent
             /\ submits'[s].body = submits[s].body
             /\ submits'[s].stale = submits[s].stale \cup paths
  <2> DEFINE old == submits[s]
             stale == old.stale \cup paths
  <2>1. old \in Submission
    BY <1>1, <1>4
  <2>2. submits'[s] = [old EXCEPT !.stale = stale]
    BY <1>2, <1>4
  <2>3. stale \in SUBSET (Paths \cup {<<"root">>})
    BY <2>1 DEF Submission
  <2> HIDE DEF stale
  <2>4. [old EXCEPT !.stale = stale] \in Submission
    BY <2>1, <2>3 DEF Submission
  <2>5. /\ [old EXCEPT !.stale = stale].status = old.status
        /\ [old EXCEPT !.stale = stale].sent = old.sent
        /\ [old EXCEPT !.stale = stale].body = old.body
        /\ [old EXCEPT !.stale = stale].stale = stale
    BY <2>1 DEF Submission
  <2> QED
    BY <2>2, <2>4, <2>5 DEF stale
<1>5. ASSUME NEW s \in SubmitIds, submits[s].status # "pending" PROVE submits'[s] = submits[s]
  BY <1>2, <1>5
<1> QED
  BY <1>1, <1>3, <1>4, <1>5

LEMMA EditKeeps ==
    ASSUME FormIInv, NEW path \in Paths, NEW v \in HeldValues, EditField(path, v)
    PROVE  FormIInv'
<1>1. /\ values' = v /\ errors' = {e \in errors : e.path # path} /\ UNCHANGED <<rendered, outcome>>
      /\ submits' = Stales({path})
      /\ \A q \in Paths : q # path => \A w : SameAt(q, w, values) => SameAt(q, w, v)
  BY DEF EditField, SameAt
<1>2. /\ submits' \in [SubmitIds -> Submission]
      /\ \A s \in SubmitIds :
            /\ submits'[s].status = submits[s].status /\ submits'[s].sent = submits[s].sent
            /\ submits'[s].body = submits[s].body
            /\ submits[s].status = "pending" => submits'[s].stale = submits[s].stale \cup {path}
            /\ submits[s].status # "pending" => submits'[s].stale = submits[s].stale
  BY <1>1, StaleFacts DEF FormIInv
<1>3. FormOK'
  BY <1>1, <1>2 DEF FormIInv, FormOK, FormTypeOK
<1>4. BodiesAreSent' /\ RefusedStaysHere'
  BY <1>1, <1>2 DEF FormIInv, BodiesAreSent, RefusedStaysHere
<1>5. PendingAreAboutValues'
  <2> HIDE DEF SameAt
  <2> QED
    BY <1>1, <1>2 DEF FormIInv, PendingAreAboutValues
<1>6. OneErrorEach'
  BY <1>1 DEF FormIInv, OneErrorEach
<1>7. AnswersAreAboutValues'
  <2> SUFFICES ASSUME NEW e \in errors', e.from # 0
               PROVE  /\ submits'[e.from].status # "idle"
                      /\ e.path \in Paths /\ e.path \notin submits'[e.from].stale
                            => SameAt(e.path, submits'[e.from].sent, v)
    BY <1>1 DEF AnswersAreAboutValues
  <2>1. e \in errors /\ e.path # path /\ e.from \in SubmitIds
    BY <1>1 DEF FormIInv, FormOK, FormTypeOK
  <2>2. /\ submits[e.from].status # "idle"
        /\ e.path \in Paths /\ e.path \notin submits[e.from].stale
              => SameAt(e.path, submits[e.from].sent, values)
    BY <2>1 DEF FormIInv, AnswersAreAboutValues
  <2>3. e.path \notin submits'[e.from].stale => e.path \notin submits[e.from].stale
    BY <1>2, <2>1
  <2> QED
    BY <1>1, <1>2, <2>1, <2>2, <2>3
<1> QED
  BY <1>3, <1>4, <1>5, <1>6, <1>7 DEF FormIInv

LEMMA ResetKeeps ==
    ASSUME FormIInv, ResetForm
    PROVE  FormIInv'
<1>1. /\ values' = Blank0("FileList") /\ errors' = {} /\ outcome' = "idle" /\ UNCHANGED rendered
      /\ submits' = Stales(Paths \cup {<<"root">>})
  BY DEF ResetForm
<1>2. /\ submits' \in [SubmitIds -> Submission]
      /\ \A s \in SubmitIds :
            /\ submits'[s].status = submits[s].status /\ submits'[s].sent = submits[s].sent
            /\ submits'[s].body = submits[s].body
            /\ submits[s].status = "pending"
                  => submits'[s].stale = submits[s].stale \cup (Paths \cup {<<"root">>})
  BY <1>1, StaleFacts DEF FormIInv
<1>3. FormOK'
  BY <1>1, <1>2, BlankFacts DEF FormIInv, FormOK, FormTypeOK
<1>4. BodiesAreSent' /\ RefusedStaysHere'
  BY <1>1, <1>2 DEF FormIInv, BodiesAreSent, RefusedStaysHere
<1>5. PendingAreAboutValues'
  BY <1>2 DEF PendingAreAboutValues
<1> QED
  BY <1>1, <1>3, <1>4, <1>5 DEF FormIInv, OneErrorEach, AnswersAreAboutValues

LEMMA SubmitKeeps ==
    ASSUME FormIInv, NEW s \in SubmitIds, SubmitForm(s)
    PROVE  FormIInv'
<1> DEFINE v == IF rendered.schema THEN NormaliseValue(values) ELSE values
           refusals == Resolve0(v)
           body == IF rendered.multipart THEN ValuesToFormData(v) ELSE <<>>
<1>1. /\ rendered.state = "open" /\ submits[s] = NoSubmit /\ errors' = refusals
      /\ UNCHANGED <<rendered, values>>
      /\ rendered \in [state : {"closed", "open", "threw", "gone"}, schema : BOOLEAN,
                       multipart : BOOLEAN]
  BY DEF SubmitForm, FormIInv, FormOK
<1>2. /\ v \in HeldValues /\ (rendered.schema => v.form = "Array")
      /\ \A path \in Paths : SameAt(path, v, values)
  BY DEF FormIInv, FormOK, FormTypeOK, NormaliseValue, HeldValues, SameAt
<1>3. /\ refusals \in SUBSET ErrorRecord /\ \A e \in refusals : e.from = 0
      /\ \A e, f \in refusals : e = f
      /\ rendered.schema /\ refusals = {} => v.name # ""
  <2>1. rendered.schema \in BOOLEAN
    BY <1>1
  <2> DEFINE required == [path |-> <<"name">>, message |-> "required", from |-> 0]
  <2>2. required \in ErrorRecord /\ required.from = 0
    BY DEF ErrorRecord, Paths
  <2> HIDE DEF v
  <2>3. CASE rendered.schema /\ v.name = ""
    <3>1. refusals = {required}
      BY <2>3 DEF Resolve0
    <3> HIDE DEF required, refusals
    <3> QED
      BY <2>2, <2>3, <3>1
  <2>4. CASE ~(rendered.schema /\ v.name = "")
    <3>1. refusals = {}
      BY <2>4 DEF Resolve0
    <3> QED
      BY <2>4, <3>1
  <2> QED
    BY <2>3, <2>4
<1>4. body \in Seq(Entries) /\ (body # <<>> => v.form = "Array" /\ body = ValuesToFormData(v))
  <2>1. rendered.multipart => rendered.schema
    BY <1>1 DEF FormIInv, FormOK
  <2>2. ValuesToFormData(v) \in Seq(Entries)
    BY <1>2, BodyFacts
  <2>3. <<>> \in Seq(Entries)
    OBVIOUS
  <2> HIDE DEF v
  <2> QED
    BY <1>2, <2>1, <2>2, <2>3
<1>5. PICK new \in Submission :
          /\ submits' = [submits EXCEPT ![s] = new]
          /\ \/ /\ new.status = "settled" /\ new.body = <<>> /\ UNCHANGED outcome
             \/ /\ new.status = "pending" /\ new.sent = v /\ new.body = body
                /\ refusals = {} /\ outcome' = "pending"
  <2>1. CASE refusals # {}
    <3> DEFINE new == [NoSubmit EXCEPT !.status = "settled", !.result = "invalid"]
    <3>1. new \in Submission /\ new.status = "settled" /\ new.body = <<>>
      BY NoSubmitFacts DEF Submission
    <3> HIDE DEF v
    <3>2. submits' = [submits EXCEPT ![s] = new] /\ UNCHANGED outcome
      BY <2>1 DEF SubmitForm, v
    <3> QED
      BY <3>1, <3>2
  <2>2. CASE refusals = {}
    <3> DEFINE new == [status |-> "pending", sent |-> v, stale |-> {}, result |-> "none",
                       body |-> body]
    <3>1. submits' = [submits EXCEPT ![s] = new] /\ outcome' = "pending"
      BY <2>2 DEF SubmitForm
    <3> HIDE DEF v, body
    <3>2. new \in Submission /\ new.status = "pending" /\ new.sent = v /\ new.body = body
      BY <1>2, <1>4 DEF Submission
    <3> QED
      BY <2>2, <3>1, <3>2
  <2> QED
    BY <2>1, <2>2
<1> HIDE DEF v, refusals, body
<1>6. \A q \in SubmitIds : submits'[q] = IF q = s THEN new ELSE submits[q]
  BY <1>5 DEF FormIInv, FormOK
<1>7. FormOK'
  <2>1. submits' \in [SubmitIds -> Submission]
    BY <1>5 DEF FormIInv, FormOK
  <2>2. errors' \subseteq ErrorRecord
    BY <1>1, <1>3
  <2>3. \A q \in SubmitIds : submits'[q].status \in {"idle", "pending", "settled"}
    BY <2>1 DEF Submission
  <2> QED
    BY <1>1, <1>5, <2>1, <2>2, <2>3 DEF FormIInv, FormOK, FormTypeOK, ErrorRecord
<1>8. BodiesAreSent'
  BY <1>4, <1>5, <1>6 DEF FormIInv, BodiesAreSent
<1>9. RefusedStaysHere'
  <2> SUFFICES ASSUME NEW q \in SubmitIds, rendered.schema, submits'[q].status = "pending"
               PROVE  submits'[q].sent.name # "" /\ submits'[q].sent.form = "Array"
    BY <1>1 DEF RefusedStaysHere
  <2>1. CASE q # s
    BY <1>6, <2>1 DEF FormIInv, RefusedStaysHere
  <2>2. CASE q = s
    <3>1. new.status = "pending" /\ new.sent = v /\ refusals = {}
      BY <1>5, <1>6, <2>2
    <3>2. submits'[q].sent = v
      BY <1>6, <2>2, <3>1
    <3> QED
      BY <1>2, <1>3, <3>1, <3>2
  <2> QED
    BY <2>1, <2>2
<1>10. PendingAreAboutValues'
  <2> HIDE DEF SameAt
  <2> QED
    BY <1>1, <1>2, <1>5, <1>6 DEF FormIInv, PendingAreAboutValues
<1>11. OneErrorEach' /\ AnswersAreAboutValues'
  BY <1>1, <1>3 DEF OneErrorEach, AnswersAreAboutValues
<1> QED
  BY <1>7, <1>8, <1>9, <1>10, <1>11 DEF FormIInv

LEMMA HydratedFacts ==
    ASSUME NEW s \in SubmitIds, NEW answer \in Answers
    PROVE  /\ Hydrated(ExtractFields(answer), s) \in SUBSET ErrorRecord
           /\ \A e \in Hydrated(ExtractFields(answer), s) : e.from = s /\ e.message = "first"
           /\ \A e, f \in Hydrated(ExtractFields(answer), s) : e.path = f.path => e = f
<1>1. \A f \in ExtractFields(answer) : f.key \in Paths \cup {<<"">>, <<"missing">>}
  BY FormAssumption DEF ExtractFields
<1>2. ASSUME NEW e \in Hydrated(ExtractFields(answer), s)
      PROVE  e \in ErrorRecord /\ e.from = s /\ e.message = "first"
  <2>1. PICK f \in ExtractFields(answer) :
            e = [path |-> IF f.key = <<"">> THEN <<"root">> ELSE f.key, message |-> "first",
                 from |-> s]
    BY DEF Hydrated
  <2>2. (IF f.key = <<"">> THEN <<"root">> ELSE f.key) \in Paths \cup {<<"root">>, <<"missing">>}
    BY <1>1
  <2> QED
    BY <2>1, <2>2 DEF ErrorRecord
<1>3. ASSUME NEW e \in ErrorRecord, NEW f \in ErrorRecord, e.path = f.path, e.from = f.from,
             e.message = f.message
      PROVE  e = f
  BY <1>3 DEF ErrorRecord
<1> QED
  BY <1>2, <1>3

LEMMA AnswerKeeps ==
    ASSUME FormIInv, NEW s \in SubmitIds, NEW answer \in Answers, ActionSettles(s, answer)
    PROVE  FormIInv'
<1> DEFINE fields == Hydrated(ExtractFields(answer), s)
           paths == {e.path : e \in fields}
           result == IF answer.shape = "ok" THEN "onSuccess"
                     ELSE IF HasFields(answer) THEN "hydrated" ELSE "rethrown"
           new == [submits[s] EXCEPT !.status = "settled", !.result = result]
<1>1. /\ submits[s].status = "pending" /\ UNCHANGED <<rendered, values>>
      /\ outcome' \in {"success", "error"}
      /\ errors' = IF answer.shape = "ok" \/ rendered.state = "gone" THEN errors
                   ELSE {e \in errors : e.path \notin paths} \cup fields
  BY DEF ActionSettles
<1>2. submits' = [submits EXCEPT ![s] = new]
  BY DEF ActionSettles, FormIInv, FormOK
<1>3. /\ fields \in SUBSET ErrorRecord /\ \A e \in fields : e.from = s
      /\ \A e, f \in fields : e.path = f.path => e = f
  BY HydratedFacts
<1>4. result \in {"none", "invalid", "onSuccess", "hydrated", "rethrown"}
  OBVIOUS
<1> HIDE DEF result
<1>5. /\ new \in Submission /\ new.status = "settled" /\ new.sent = submits[s].sent
      /\ new.body = submits[s].body /\ new.stale = submits[s].stale
  BY <1>4 DEF FormIInv, FormOK, Submission
<1> HIDE DEF new, fields
<1>6. \A q \in SubmitIds : submits'[q] = IF q = s THEN new ELSE submits[q]
  BY <1>2 DEF FormIInv, FormOK
<1>7. \A q \in SubmitIds :
          /\ submits'[q].sent = submits[q].sent /\ submits'[q].body = submits[q].body
          /\ submits'[q].stale = submits[q].stale
          /\ submits'[q].status = "pending" => submits[q].status = "pending"
          /\ submits[q].status # "idle" => submits'[q].status # "idle"
  BY <1>5, <1>6
<1>8. FormOK'
  <2>1. submits' \in [SubmitIds -> Submission]
    BY <1>2, <1>5 DEF FormIInv, FormOK
  <2>2. errors' \subseteq ErrorRecord
    BY <1>1, <1>3 DEF FormIInv, FormOK, FormTypeOK, ErrorRecord
  <2>3. \A q \in SubmitIds : submits'[q].status \in {"idle", "pending", "settled"}
    BY <2>1 DEF Submission
  <2>4. rendered.state # "closed"
    BY <1>1 DEF FormIInv, FormOK
  <2> QED
    BY <1>1, <2>1, <2>2, <2>3, <2>4 DEF FormIInv, FormOK, FormTypeOK, ErrorRecord
<1>9. BodiesAreSent' /\ RefusedStaysHere'
  BY <1>1, <1>7 DEF FormIInv, BodiesAreSent, RefusedStaysHere
<1>10. PendingAreAboutValues'
  <2> HIDE DEF SameAt
  <2> QED
    BY <1>1, <1>7 DEF FormIInv, PendingAreAboutValues
<1>11. OneErrorEach'
  BY <1>1, <1>3 DEF FormIInv, OneErrorEach
<1>12. AnswersAreAboutValues'
  <2> SUFFICES ASSUME NEW e \in errors', e.from # 0
               PROVE  /\ submits'[e.from].status # "idle"
                      /\ e.path \in Paths /\ e.path \notin submits'[e.from].stale
                            => SameAt(e.path, submits'[e.from].sent, values)
    BY <1>1 DEF AnswersAreAboutValues
  <2>1. CASE e \in fields
    <3>1. e.from = s
      BY <1>3, <2>1
    <3>2. e.path \in Paths /\ e.path \notin submits[s].stale => SameAt(e.path, submits[s].sent, values)
      BY <1>1 DEF FormIInv, PendingAreAboutValues
    <3> QED
      BY <1>1, <1>7, <3>1, <3>2
  <2>2. CASE e \in errors
    <3>1. e.from \in SubmitIds
      BY <2>2 DEF FormIInv, FormOK, FormTypeOK
    <3>2. /\ submits[e.from].status # "idle"
          /\ e.path \in Paths /\ e.path \notin submits[e.from].stale
                => SameAt(e.path, submits[e.from].sent, values)
      BY <2>2 DEF FormIInv, AnswersAreAboutValues
    <3> QED
      BY <1>7, <3>1, <3>2
  <2> QED
    BY <1>1, <2>1, <2>2
<1> QED
  BY <1>8, <1>9, <1>10, <1>11, <1>12 DEF FormIInv

LEMMA FormKeeps ==
    ASSUME FormIInv, [FormNext]_formVars
    PROVE  FormIInv'
<1>1. CASE ClosePage
  BY <1>1 DEF ClosePage, FormIInv, FormOK, FormTypeOK, BodiesAreSent, RefusedStaysHere,
              PendingAreAboutValues, OneErrorEach, AnswersAreAboutValues
<1>2. CASE UNCHANGED formVars
  BY <1>2 DEF formVars, FormIInv, FormOK, FormTypeOK, BodiesAreSent, RefusedStaysHere,
              PendingAreAboutValues, OneErrorEach, AnswersAreAboutValues
<1> QED
  BY <1>1, <1>2, RenderFormKeeps, EditKeeps, ResetKeeps, SubmitKeeps, AnswerKeeps DEF FormNext

(* A multipart body says what the form holds (valuesToFormData.ts:82-149), *)
(* and the errors on the fields are those of the values in them, however   *)
(* edits, submits and answers interleave (TheoForm.tsx:188-220, 302-312).  *)
THEOREM FormIsKept == FormSpec => []FormKept
<1>1. ASSUME FormIInv PROVE BodySaysValues
  <2>1. \A s \in SubmitIds : submits[s].sent \in HeldValues
    BY <1>1 DEF FormIInv, FormOK, Submission
  <2> QED
    BY <1>1, <2>1, RebuiltValues DEF FormIInv, BodiesAreSent, BodySaysValues
<1>2. ASSUME FormIInv PROVE ErrorsAreAboutValues
  <2> SUFFICES ASSUME NEW path \in Paths, NEW e \in FieldError(path)
               PROVE  /\ \A other \in FieldError(path) : other = e
                      /\ e.from # 0 /\ path \notin submits[e.from].stale
                            => SameAt(path, submits[e.from].sent, values)
    BY DEF ErrorsAreAboutValues, SameAt
  <2>1. path # <<"">>
    <3>1. <<"name">> # <<"">>
      OBVIOUS
    <3>2. <<"tags">> # <<"">>
      OBVIOUS
    <3>3. <<"photos">> # <<"">>
      OBVIOUS
    <3>4. <<"home", "city">> # <<"">>
      OBVIOUS
    <3> QED
      BY <3>1, <3>2, <3>3, <3>4 DEF Paths
  <2>2. FieldError(path) = {f \in errors : f.path = path}
    BY <2>1 DEF FieldError
  <2> HIDE DEF SameAt
  <2> QED
    BY <1>2, <2>2 DEF FormIInv, OneErrorEach, AnswersAreAboutValues
<1>3. FormIInv => FormKept
  BY <1>1, <1>2 DEF FormIInv, FormOK, FormKept
<1> QED
  BY <1>3, FormStarts, FormKeeps, PTL DEF FormSpec
=============================================================================
