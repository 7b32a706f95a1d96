--------------------------- MODULE ChannelRegistry ---------------------------
(***************************************************************************)
(* The webhook channels of one user: WebhookService of the user            *)
(* application.  The limit and the URL are checked with queries of their   *)
(* own before the write.  URLs are stored encrypted with a fresh IV, so    *)
(* the check decrypts every live channel, and one that cannot be decrypted *)
(* (its key has been replaced) counts as different.                        *)
(***************************************************************************)
EXTENDS Calls

CONSTANTS
    Channels,
    ChannelUrls,
    MaxChannels,   \* MAX_CHANNELS_PER_USER
    MaxKeyChanges  \* bound: replacements of the encryption key

ASSUME ChannelsAssumption ==
    /\ IsFiniteSet(Channels)
    /\ MaxChannels \in Nat
    /\ MaxKeyChanges \in Nat

VARIABLES
    chLive,      \* channels with isDeleted = false
    chGone,      \* channels with isDeleted = true
    chUrl,       \* the URL behind the ciphertext of column url
    readable,    \* channels whose ciphertext the present key decrypts
    chCall,      \* per call, what it does and what it has found
    chLate,      \* per channel, the writes that reached it after its deletion
    keyChanges

chVars == <<chLive, chGone, chUrl, readable, chCall, chLate, keyChanges>>

NoChannelUrl == "no url"
NoChannel == "no channel"

ASSUME ChannelUrlsAssumption == NoChannelUrl \notin ChannelUrls

\* What checkDuplicateUrl finds, the channel under edit excepted.
Duplicates(u, except) == {c \in (chLive \cap readable) \ except : chUrl[c] = u}

ChannelsInit ==
    /\ chLive = {}
    /\ chGone = {}
    /\ chUrl = [c \in Channels |-> NoChannelUrl]
    /\ readable = {}
    /\ chCall = [q \in Calls |-> Idle]
    /\ chLate = [c \in Channels |-> 0]
    /\ keyChanges = 0

ChannelCall(q, c) == chCall' = [chCall EXCEPT ![q] = c]
LateWrite(c) == chLate' = IF c \in chGone THEN [chLate EXCEPT ![c] = @ + 1] ELSE chLate

-----------------------------------------------------------------------------
(* create *)

\* Mutant: the limit is one channel too high.
CountChannelsAtLimit(q) ==
    /\ chCall[q] = Idle
    /\ Cardinality(chLive) <= MaxChannels
    /\ \E u \in ChannelUrls : ChannelCall(q, [op |-> "checkNew", channel |-> NoChannel, url |-> u])
    /\ UNCHANGED <<chLive, chGone, chUrl, readable, chLate, keyChanges>>

\* countByUserId; at the limit the answer is CHANNEL_LIMIT_EXCEEDED.
CountChannels(q) ==
    /\ chCall[q] = Idle
    /\ Cardinality(chLive) < MaxChannels
    /\ \E u \in ChannelUrls : ChannelCall(q, [op |-> "checkNew", channel |-> NoChannel, url |-> u])
    /\ UNCHANGED <<chLive, chGone, chUrl, readable, chLate, keyChanges>>

\* A duplicate ends the call with DUPLICATE_URL (AbandonChannel).
CheckNewUrl(q) ==
    /\ chCall[q].op = "checkNew"
    /\ Duplicates(chCall[q].url, {}) = {}
    /\ ChannelCall(q, [chCall[q] EXCEPT !.op = "insert"])
    /\ UNCHANGED <<chLive, chGone, chUrl, readable, chLate, keyChanges>>

InsertChannel(q) ==
    /\ chCall[q].op = "insert"
    /\ \E c \in Channels \ (chLive \cup chGone) :
         /\ chLive' = chLive \cup {c}
         /\ chUrl' = [chUrl EXCEPT ![c] = chCall[q].url]
         /\ readable' = readable \cup {c}
    /\ ChannelCall(q, Idle)
    /\ UNCHANGED <<chGone, chLate, keyChanges>>

-----------------------------------------------------------------------------
(* update, remove *)

\* Mutant: the channel is found by its id alone, deleted or not.
FindChannelById(q) ==
    /\ chCall[q] = Idle
    /\ \E c \in chLive \cup chGone :
         \/ \E u \in ChannelUrls : ChannelCall(q, [op |-> "checkEdit", channel |-> c, url |-> u])
         \/ \E op \in {"edit", "remove"} : ChannelCall(q, [op |-> op, channel |-> c, url |-> NoChannelUrl])
    /\ UNCHANGED <<chLive, chGone, chUrl, readable, chLate, keyChanges>>

\* findOwnChannel; an update without a URL goes straight to its write.
FindOwnChannel(q) ==
    /\ chCall[q] = Idle
    /\ \E c \in chLive :
         \/ \E u \in ChannelUrls : ChannelCall(q, [op |-> "checkEdit", channel |-> c, url |-> u])
         \/ \E op \in {"edit", "remove"} : ChannelCall(q, [op |-> op, channel |-> c, url |-> NoChannelUrl])
    /\ UNCHANGED <<chLive, chGone, chUrl, readable, chLate, keyChanges>>

\* Mutant: an edit does not look for the URL.
CheckEditedUrlSkipped(q) ==
    LET c == chCall[q] IN
    /\ c.op = "checkEdit"
    /\ ChannelCall(q, [c EXCEPT !.op = "edit"])
    /\ UNCHANGED <<chLive, chGone, chUrl, readable, chLate, keyChanges>>

CheckEditedUrl(q) ==
    LET c == chCall[q] IN
    /\ c.op = "checkEdit"
    /\ Duplicates(c.url, {c.channel}) = {}
    /\ ChannelCall(q, [c EXCEPT !.op = "edit"])
    /\ UNCHANGED <<chLive, chGone, chUrl, readable, chLate, keyChanges>>

\* WHERE id; a URL is encrypted anew.
UpdateChannel(q) ==
    LET c == chCall[q] IN
    /\ c.op = "edit"
    /\ IF c.url = NoChannelUrl
         THEN UNCHANGED <<chUrl, readable>>
         ELSE /\ chUrl' = [chUrl EXCEPT ![c.channel] = c.url]
              /\ readable' = readable \cup {c.channel}
    /\ LateWrite(c.channel)
    /\ ChannelCall(q, Idle)
    /\ UNCHANGED <<chLive, chGone, keyChanges>>

SoftDeleteChannel(q) ==
    LET c == chCall[q] IN
    /\ c.op = "remove"
    /\ chLive' = chLive \ {c.channel}
    /\ chGone' = chGone \cup {c.channel}
    /\ LateWrite(c.channel)
    /\ ChannelCall(q, Idle)
    /\ UNCHANGED <<chUrl, readable, keyChanges>>

\* A refusal after a check, a query that rejects, or the death of the process.
AbandonChannel(q) ==
    /\ chCall[q] # Idle
    /\ ChannelCall(q, Idle)
    /\ UNCHANGED <<chLive, chGone, chUrl, readable, chLate, keyChanges>>

\* The servers restart with another key: their calls are lost, and what was
\* encrypted before cannot be read any more.
ReplaceKey ==
    /\ keyChanges < MaxKeyChanges
    /\ keyChanges' = keyChanges + 1
    /\ readable' = {}
    /\ chCall' = [q \in Calls |-> Idle]
    /\ UNCHANGED <<chLive, chGone, chUrl, chLate>>

ChannelsNext ==
    \/ ReplaceKey
    \/ \E q \in Calls :
         \/ CountChannels(q) \/ CheckNewUrl(q) \/ InsertChannel(q)
         \/ FindOwnChannel(q) \/ CheckEditedUrl(q) \/ UpdateChannel(q)
         \/ SoftDeleteChannel(q) \/ AbandonChannel(q)

ChannelsSpec == ChannelsInit /\ [][ChannelsNext]_chVars

-----------------------------------------------------------------------------
(* Properties *)

ChannelRows == INSTANCE SoftDeleted WITH
    Rows <- Channels, MaxLate <- Others,
    live <- chLive, gone <- chGone, late <- chLate

\* The channels are soft-deleted rows.
ChannelsAreSoftDeleted == ChannelRows!Spec

\* The count is read before the insert: n calls at a time exceed the limit by
\* n - 1 channels at most.
ChannelOvershoot == Cardinality(chLive) <= MaxChannels + Others

\* n calls at a time leave at most n live channels of one URL per encryption key
\* the URLs were stored under: with one key and one call a URL is unique.
ChannelUrlCopies ==
    \A u \in ChannelUrls :
      Cardinality({c \in chLive : chUrl[c] = u}) <= Cardinality(Calls) * (keyChanges + 1)

=============================================================================
