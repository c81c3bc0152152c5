------------------------------ MODULE LoginLinks ------------------------------
(***************************************************************************)
(* The way into the dashboard (login_links.py, auth.py, routes/login.py):  *)
(* the tray mints a link, whoever opens it first spends it for a session   *)
(* cookie, and the middleware lets the requests of that cookie through     *)
(* until it idles out, ages out, or the recorder restarts.  A browser with *)
(* one dashboard tab is the client, at an address it sends Fetch Metadata  *)
(* to or at one it does not: plain http in a LAN, or an older engine.      *)
(***************************************************************************)
EXTENDS Integers, Sequences, FiniteSets

CONSTANTS
  TokenTtl, Grace, SessionIdle, SessionMax,   \* in ticks of the clock
  MaxNow,      \* bound: ticks
  MaxLinks     \* bound: links minted; a link issues one cookie, of its number

ASSUME LinksAssumption ==
  /\ {TokenTtl, Grace, SessionIdle, SessionMax, MaxNow, MaxLinks} \subseteq Nat \ {0}
  /\ Grace < SessionIdle /\ SessionIdle < SessionMax

VARIABLES
  now,       \* time.monotonic
  links,     \* token -> [expires, spent, cookie]; cookie <<>> until spent
  issued,    \* cookie -> [at, seen], the sessions of this process
  minted,    \* links minted so far
  cookies,   \* cookies issued so far
  metadata,  \* the browser sends Fetch Metadata with its requests
  jar,       \* the browser's cookie: <<>> or <<c>>
  tab,       \* the dashboard is open in a tab
  signin,    \* how the tab came by its cookie (history): <<>> when it has
             \* none, or the process that issued it is gone
  cleared,   \* history, since the operator last opened a link: a navigation
             \* was refused and its dead cookie cleared
  prompted   \* history, since then: a request of the tab itself drew the
             \* browser's password dialog

browser == <<metadata, jar, tab, signin, cleared, prompted>>
lvars == <<now, links, issued, minted, cookies, metadata, jar, tab, signin, cleared, prompted>>

LInit ==
  /\ now = 0 /\ links = <<>> /\ issued = <<>> /\ minted = 0 /\ cookies = 0
  /\ metadata \in BOOLEAN
  /\ jar = <<>> /\ tab = FALSE /\ signin = <<>> /\ cleared = FALSE /\ prompted = FALSE

Only(f, keep) == [x \in keep |-> f[x]]
Put(f, x, value) == [y \in DOMAIN f \cup {x} |-> IF y = x THEN value ELSE f[y]]

-----------------------------------------------------------------------------
(* _sweep: unspent links past their time, spent ones past their grace.     *)
Live(t) ==
  IF links[t].cookie = <<>> THEN now < links[t].expires ELSE now - links[t].spent <= Grace

LiveLinks == Only(links, {t \in DOMAIN links : Live(t)})

(* api_login_link                                                          *)
Mint ==
  /\ minted < MaxLinks /\ minted' = minted + 1
  /\ links' = Put(LiveLinks, minted', [expires |-> now + TokenTtl, spent |-> 0, cookie |-> <<>>])
  /\ UNCHANGED <<now, issued, cookies, browser>>

(* spend: the first one issues a session; inside the grace the link still  *)
(* answers, with that session.                                             *)
Answers(t) == IF links[t].cookie = <<>> THEN <<cookies + 1>> ELSE links[t].cookie

(* _find, after the sweep.                                                 *)
Found(t) == t \in DOMAIN LiveLinks

Spend(t) ==
  /\ Found(t)
  /\ LET c == Answers(t)
         fresh == c = <<cookies + 1>>
     IN  /\ links' = [LiveLinks EXCEPT ![t].cookie = c,
                                   ![t].spent = IF fresh THEN now ELSE @]
         /\ cookies' = IF fresh THEN cookies + 1 ELSE cookies
         /\ issued' = IF fresh THEN Put(issued, c[1], [at |-> now, seen |-> now]) ELSE issued
  /\ UNCHANGED <<now, minted, metadata>>

(* A link scanner or a preview opens the link; the operator does, in the   *)
(* tab of the dashboard.                                                   *)
Preview(t) == Spend(t) /\ UNCHANGED browser

OpenLink(t) ==
  /\ Spend(t)
  /\ jar' = Answers(t) /\ tab' = TRUE /\ cleared' = FALSE /\ prompted' = FALSE
  /\ signin' = <<[at |-> issued'[jar'[1]].at, used |-> issued'[jar'[1]].seen]>>

-----------------------------------------------------------------------------
(* validate: the dead are forgotten, the presented one is marked used.     *)
Fresh(c) == now - issued[c].seen <= SessionIdle /\ now - issued[c].at <= SessionMax

Validated(c) ==
  LET alive == Only(issued, {d \in DOMAIN issued : Fresh(d)})
  IN  IF c \in DOMAIN alive THEN [alive EXCEPT ![c].seen = now] ELSE alive

Accepted == jar # <<>> /\ jar[1] \in DOMAIN issued /\ Fresh(jar[1])

Validate == issued' = IF jar = <<>> THEN issued ELSE Validated(jar[1])

(* Mutant: only a request that carries a cookie goes without a challenge.  *)
QuietWithCookie(navigating, background) == ~navigating /\ jar # <<>>

(* basic_auth_middleware: whether a refusal goes without its challenge,    *)
(* which the browser would answer with its password dialog.  A request is  *)
(* known for the page's own (_is_background_fetch) by its Fetch Metadata;  *)
(* a navigation (_is_navigation) is known without it too, by its Accept.   *)
Quiet(navigating, background) == ~navigating /\ (jar # <<>> \/ background)

(* A request of the open tab: its poll, or something the operator does.    *)
TabFetches ==
  /\ tab /\ Validate
  /\ prompted' = (prompted \/ (~Accepted /\ ~Quiet(FALSE, metadata)))
  /\ signin' = IF Accepted /\ signin # <<>> THEN <<[signin[1] EXCEPT !.used = now]>> ELSE signin
  /\ UNCHANGED <<now, links, minted, cookies, metadata, jar, tab, cleared>>

(* The operator goes to the dashboard by its address, in that tab or in    *)
(* another: a dead cookie is cleared with the refusal.                     *)
Navigate ==
  /\ Validate
  /\ jar' = IF Accepted THEN jar ELSE <<>>
  /\ cleared' = (cleared \/ (jar # <<>> /\ ~Accepted))
  /\ tab' = (tab \/ Accepted)
  /\ signin' = IF ~Accepted THEN <<>>
               ELSE IF signin # <<>> THEN <<[signin[1] EXCEPT !.used = now]>> ELSE signin
  /\ UNCHANGED <<now, links, minted, cookies, metadata, prompted>>

-----------------------------------------------------------------------------
Tick ==
  /\ now < MaxNow /\ now' = now + 1
  /\ UNCHANGED <<links, issued, minted, cookies, browser>>

(* The links and sessions are the process's; the browser keeps its cookie. *)
Restart ==
  /\ links' = <<>> /\ issued' = <<>> /\ signin' = <<>>
  /\ UNCHANGED <<now, minted, cookies, metadata, jar, tab, cleared, prompted>>

LNext ==
  \/ Mint \/ TabFetches \/ Navigate \/ Tick \/ Restart
  \/ \E t \in DOMAIN links : Preview(t) \/ OpenLink(t)

-----------------------------------------------------------------------------
(* A link is one sign-in: however often it is opened, by whomever, it      *)
(* issues one session.                                                     *)
OneSignInPerLink == cookies <= minted

(* A tab in use stays signed in: within the age limit, a request that      *)
(* comes before the tab has idled out is let through.                      *)
TabStaysSignedIn ==
  signin # <<>> /\ now - signin[1].used <= SessionIdle /\ now - signin[1].at <= SessionMax => Accepted

(* And not longer: a session that has ended, by idling or by age, is not  *)
(* brought back by the requests that still carry its cookie, nor by the    *)
(* link that issued it being opened again inside its grace.                *)
EndedStaysEnded ==
  [][\A c \in DOMAIN issued : ~Fresh(c) => ~(c \in DOMAIN issued' /\ Fresh(c)')]_lvars

(* The open tab draws the browser's password dialog in one case: the       *)
(* browser sends no Fetch Metadata, and a navigation met the dead cookie   *)
(* and cleared it (auth.py:216-242).  A restart, idling or ageing alone    *)
(* does not, the tab's requests carrying the dead cookie still; and where  *)
(* they are marked as the page's own, nothing does.                        *)
PromptIsAfterClearing == prompted => ~metadata /\ cleared

(* A sign-in holds: one to a link, good for as long as the tab is in use   *)
(* and no longer, and its end alone draws no password dialog in the tab.   *)
SignInHolds ==
  /\ [](OneSignInPerLink /\ TabStaysSignedIn /\ PromptIsAfterClearing)
  /\ EndedStaysEnded
=============================================================================
