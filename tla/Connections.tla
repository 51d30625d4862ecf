----------------------------- MODULE Connections -----------------------------
(* The credentials of one tenant: the OAuth connection of a social or CRM   *)
(* provider, the channels that hold a copy of it, the token refresh of the  *)
(* CRM test call, and the mail provider's configuration.  A token is the    *)
(* number of the grant it came from; the provider keeps the set of the ones *)
(* it still accepts.                                                        *)
EXTENDS Naturals, Sequences
CONSTANTS Sessions,   \* requests that may be in flight
          MaxGrants,  \* bound on the grants the provider ever makes
          MaxRows,    \* bound on the channels
          MaxCalls    \* bound on the requests
VARIABLES provider,   \* the OAuth provider connected
          grant,      \* the provider's newest grant
          valid,      \* the grants whose tokens it accepts
          cookie,     \* the OAuth state parked in the admin's session, or 0
          states,     \* states ever parked
          redirects,  \* redirects of the provider on their way: [state, grant]
          taken,      \* states whose callback was accepted
          rows,       \* credentials with channel_id NULL: [provider, token]
          channels,   \* tokens of the credentials attached to a channel
          orphaned,   \* a refresh was made at the provider and not stored
          calls, raced, tx
vars == <<provider, grant, valid, cookie, states, redirects, taken, rows, channels, orphaned,
          calls, raced, tx>>

Idle == [op |-> "idle"]
Kinds == {"oauth", "mail"}
Overlaps == raced \/ \E o \in Sessions : tx[o] # Idle

Init ==
  /\ provider \in {"linkedin", "hubspot"} /\ grant = 0 /\ valid = {}
  /\ cookie = 0 /\ states = 0 /\ redirects = {} /\ taken = {}
  /\ rows = <<>> /\ channels = <<>> /\ orphaned = FALSE
  /\ calls = 0 /\ raced = FALSE /\ tx = [s \in Sessions |-> Idle]

Begin(s, t) ==
  /\ tx[s] = Idle /\ calls < MaxCalls
  /\ calls' = calls + 1 /\ raced' = Overlaps /\ tx' = [tx EXCEPT ![s] = t]

Close(s) == tx' = [tx EXCEPT ![s] = Idle] /\ UNCHANGED <<calls, raced>>

RowsOf(kind) == {i \in DOMAIN rows : rows[i].kind = kind}
RowOf(kind) == IF RowsOf(kind) = {} THEN 0 ELSE CHOOSE i \in RowsOf(kind) : TRUE

(* GET connect: a fresh state in the session, overwriting an older one. *)
Connect ==
  /\ calls < MaxCalls /\ calls' = calls + 1
  /\ states' = states + 1 /\ cookie' = states + 1
  /\ UNCHANGED <<provider, grant, valid, redirects, taken, rows, channels, orphaned, raced, tx>>

(* The admin consents at the provider (external); the redirect carries the  *)
(* state of the connect it belongs to and may arrive late or twice.         *)
Consent(n) ==
  /\ n \in 1..states /\ grant < MaxGrants
  /\ \A r \in redirects : r.state # n
  /\ grant' = grant + 1 /\ valid' = valid \cup {grant + 1}
  /\ redirects' = redirects \cup {[state |-> n, grant |-> grant + 1]}
  /\ UNCHANGED <<provider, cookie, states, taken, rows, channels, orphaned, calls, raced, tx>>

(* The provider revokes the app's access (external). *)
Revoke ==
  /\ valid # {} /\ valid' = {}
  /\ UNCHANGED <<provider, grant, cookie, states, redirects, taken, rows, channels,
                 orphaned, calls, raced, tx>>

(* The state is read from the session and left there. *)
PeekState == cookie
PopState == 0

Matches(r) == cookie # 0 /\ cookie = r.state

(* GET callback up to the exchange of the code and the lookup of the row.   *)
Callback(s, r) ==
  /\ Matches(r)
  /\ Begin(s, [op |-> "store", kind |-> "oauth", token |-> r.grant, row |-> RowOf("oauth"),
               state |-> {<<r.state, calls>>}])
  /\ UNCHANGED <<provider, grant, valid, cookie, states, redirects, taken, rows, channels,
                 orphaned>>

(* A callback whose state is not the parked one: 400, the parked one gone. *)
CallbackMismatch(r) ==
  /\ ~Matches(r) /\ cookie # 0 /\ cookie' = 0
  /\ UNCHANGED <<provider, grant, valid, states, redirects, taken, rows, channels, orphaned, calls, raced, tx>>

(* POST email config: the row of the mail provider is looked up. *)
UpsertEmailConfig(s) ==
  /\ Begin(s, [op |-> "store", kind |-> "mail", token |-> calls + 1, row |-> RowOf("mail"),
               state |-> {}])
  /\ UNCHANGED <<provider, grant, valid, cookie, states, redirects, taken, rows, channels, orphaned>>

(* The partial unique index on the credentials without a channel. *)
NoUniqueLabel(kind) == TRUE
UniqueLabel(kind) == RowsOf(kind) = {}

(* The credential is inserted or rewritten and the request commits; its     *)
(* reply carries the session cookie without the state (a reply 500 carries  *)
(* no cookie).                                                              *)
StoreCredential(s) ==
  /\ tx[s].op = "store"
  /\ \/ /\ tx[s].row = 0 /\ UniqueLabel(tx[s].kind)
        /\ rows' = Append(rows, [kind |-> tx[s].kind, token |-> tx[s].token])
     \/ /\ tx[s].row # 0
        /\ rows' = [rows EXCEPT ![tx[s].row].token = tx[s].token]
  /\ taken' = taken \cup tx[s].state
  /\ cookie' = IF tx[s].kind = "oauth" THEN PopState ELSE cookie
  /\ Close(s)
  /\ UNCHANGED <<provider, grant, valid, states, redirects, channels, orphaned>>

(* POST channels: the pages are listed with the stored token, which must be *)
(* valid, and the channel gets a copy of the credential.                    *)
ListAuthorisedPages(s) ==
  /\ provider = "linkedin" /\ RowOf("oauth") # 0 /\ Len(channels) < MaxRows
  /\ rows[RowOf("oauth")].token \in valid
  /\ Begin(s, [op |-> "channel", token |-> rows[RowOf("oauth")].token])
  /\ UNCHANGED <<provider, grant, valid, cookie, states, redirects, taken, rows, channels, orphaned>>

CreateChannel(s) ==
  /\ tx[s].op = "channel" /\ Len(channels) < MaxRows
  /\ channels' = Append(channels, tx[s].token)
  /\ Close(s)
  /\ UNCHANGED <<provider, grant, valid, cookie, states, redirects, taken, rows, orphaned>>

(* POST hubspot/test with an expiring token: the refresh rotates the grant  *)
(* at the provider at once.                                                 *)
RefreshToken(s) ==
  /\ provider = "hubspot" /\ RowOf("oauth") # 0 /\ grant < MaxGrants
  /\ rows[RowOf("oauth")].token \in valid
  /\ grant' = grant + 1
  /\ valid' = (valid \ {rows[RowOf("oauth")].token}) \cup {grant + 1}
  /\ Begin(s, [op |-> "refresh", old |-> rows[RowOf("oauth")].token, token |-> grant + 1, row |-> RowOf("oauth")])
  /\ UNCHANGED <<provider, cookie, states, redirects, taken, rows, channels, orphaned>>

(* The payload keeps the refresh token it had. *)
RotatedNever(old, new) == old
Rotated(old, new) == new

(* The contacts are listed and the request commits the new tokens. *)
ListContacts(s) ==
  /\ tx[s].op = "refresh"
  /\ rows' = [rows EXCEPT ![tx[s].row].token = Rotated(tx[s].old, tx[s].token)]
  /\ Close(s)
  /\ UNCHANGED <<provider, grant, valid, cookie, states, redirects, taken, channels, orphaned>>

(* Any request fails and rolls back: the exchange of the code, the unique   *)
(* index, the listing of the contacts after a refresh.                      *)
Rollback(s) ==
  /\ tx[s] # Idle /\ Close(s)
  /\ orphaned' = (orphaned \/ tx[s].op = "refresh")
  /\ UNCHANGED <<provider, grant, valid, cookie, states, redirects, taken, rows, channels>>

Next ==
  \/ Connect \/ Revoke
  \/ \E n \in 1..states : Consent(n)
  \/ \E r \in redirects : CallbackMismatch(r)
  \/ \E s \in Sessions :
       \/ \E r \in redirects : Callback(s, r)
       \/ UpsertEmailConfig(s) \/ StoreCredential(s)
       \/ ListAuthorisedPages(s) \/ CreateChannel(s)
       \/ RefreshToken(s) \/ ListContacts(s) \/ Rollback(s)

Spec == Init /\ [][Next]_vars

(* One credential per provider however many requests overlap: every lookup  *)
(* of it uses scalar_one_or_none, which raises for ever on a second row.    *)
OneCredential == \A kind \in Kinds : \A i, j \in RowsOf(kind) : i = j

(* A parked OAuth state lets one callback in: a late or repeated redirect   *)
(* of the same consent finds it popped, unless two requests overlap.        *)
StateUsedOnce == raced \/ \A a, b \in taken : a[1] = b[1] => a = b

(* After a refresh that committed the credential holds the tokens the       *)
(* provider put in the place of the old ones, so the connection survives    *)
(* any number of refreshes (none of them rolled back).                      *)
RefreshStoredStep ==
  \A s \in Sessions :
    tx[s] # Idle /\ tx[s].op = "refresh" /\ tx'[s] = Idle /\ ~orphaned' /\ ~raced
    => rows'[tx[s].row].token = tx[s].token

(* What dispatch_social_asset says of a revoked channel, "Admin must        *)
(* re-OAuth + manually resume the campaign": once the tenant's credential   *)
(* is valid again, the channels made from it can publish.                   *)
ReconnectRestores ==
  \A i \in RowsOf("oauth") :
    rows[i].token \in valid => \A c \in DOMAIN channels : channels[c] \in valid
=============================================================================
