--------------------------- MODULE GameBarSnapshots ---------------------------
(* What the Game Bar widget is shown (gamebar_bridge.rs, state.rs): a watcher *)
(* collects the League client's state every second and sets it over the       *)
(* snapshot that the Relay, the recorder and the watcher itself put toasts,   *)
(* voice chat messages and tutorial resets into; a WebSocket client is sent   *)
(* the whole snapshot whenever it is notified of a change.                    *)
EXTENDS Sequences, Integers, Filtering

CONSTANTS
    Friends,    \* the friends of the player
    Sources,    \* who pushes toasts, each under an id of its own
    Sticky,     \* the one of them whose toast stays until it is removed
    Channels,   \* voice channels
    MaxToasts, MaxVoice,   \* GAMEBAR_TOAST_MAX_ITEMS and the six messages of a channel
    RefreshEvery,          \* FRIEND_REFRESH_EVERY_TICKS
    MaxPushes, MaxResets   \* bounds on what is pushed

VARIABLES
    online,    \* the friends who are online, as the League client would tell
    snap,      \* AppState.gamebar_snapshot
    watch,     \* watch_snapshot: [pc, tick, cached, inited, got, fresh, toast]
    expired,   \* the stamps whose time is over
    stamp,     \* the last stamp given to a toast or message
    client,    \* a WebSocket connection: [pc, notified, seen]
    \* history
    steady,    \* friends online ever since the watcher last took the client as gone
    greeted,   \* ... of those, the ones a toast announced as coming online
    missed,    \* a friend list of that time was made up: neither read nor the last one read
    overrun    \* stamps a set of the watcher took away that were not expired

vars ==
    <<online, snap, watch, expired, stamp, client, steady, greeted, missed, overrun>>

Base(connected, friends) == [connected |-> connected, friends |-> friends]

Nothing == Base(FALSE, {})

Blank == [base |-> Nothing, toasts |-> <<>>, channel |-> "none", voice |-> <<>>, reset |-> 0]

Init ==
    /\ online \in SUBSET Friends
    /\ snap = Blank
    /\ watch = [pc |-> "idle", tick |-> 0, cached |-> {}, inited |-> FALSE,
                got |-> Nothing, fresh |-> FALSE, toast |-> {}]
    /\ expired = {} /\ stamp = 0
    /\ client = [pc |-> "off", notified |-> FALSE, seen |-> Blank]
    /\ steady = online /\ greeted = {} /\ missed = FALSE /\ overrun = {}

historyVars == <<steady, greeted, missed, overrun>>
Toast == [id : Sources \cup Friends, stamp : 1..MaxPushes]
Message == [channel : Channels, stamp : 1..MaxPushes]
Stamps(items) == {t.stamp : t \in Elements(items)}

(* What a widget shows of a snapshot: it leaves expired items out itself.     *)
Live(items) == {t \in items : t.stamp \notin expired}
Pruned(s) == [s EXCEPT !.toasts = Kept(@, Live(Toast)), !.voice = Kept(@, Live(Message))]

Notify(before, after) ==
    client' = [client EXCEPT !.notified = @ \/ (client.pc # "off" /\ before # after)]

(* Every change of the snapshot but the collected part.                       *)
Change(new) ==
    /\ snap' = new
    /\ Notify(snap, new)
    /\ UNCHANGED <<online, watch, expired, historyVars>>

LastOf(items, n) == SubSeq(items, IF Len(items) > n THEN Len(items) - n + 1 ELSE 1, Len(items))

-----------------------------------------------------------------------------
(* Toasts, voice chat and tutorial resets.                                    *)

WithToast(s, t) ==
    LET same == {i \in DOMAIN s.toasts : s.toasts[i].id = t.id}
    IN  IF same = {} THEN [s EXCEPT !.toasts = LastOf(Append(@, t), MaxToasts)]
        ELSE [s EXCEPT !.toasts[CHOOSE i \in same : TRUE] =
                  IF t.id = Sticky THEN @ ELSE t]

PushToast(id) ==
    /\ stamp < MaxPushes /\ stamp' = stamp + 1
    /\ Change(WithToast(Pruned(snap), [id |-> id, stamp |-> stamp']))

RemoveToast(id) ==
    /\ id \in {t.id : t \in Elements(snap.toasts)}
    /\ Change([snap EXCEPT !.toasts = Kept(@, {t \in Toast : t.id # id})])
    /\ UNCHANGED stamp

(* Another channel's message drops those of the channel before.               *)
KeepsVoice(s, c) == IF s.channel = c THEN s.voice ELSE <<>>

PushVoice(c) ==
    /\ stamp < MaxPushes /\ stamp' = stamp + 1
    /\ LET s == Pruned(snap)
       IN  Change([s EXCEPT !.channel = c,
                            !.voice = LastOf(Append(KeepsVoice(s, c),
                                                    [channel |-> c, stamp |-> stamp']), MaxVoice)])

(* A message that is pushed again only switches the channel.                  *)
PushKnownVoice(m) ==
    /\ m \in Elements(Pruned(snap).voice)
    /\ Change(Pruned(snap))
    /\ UNCHANGED stamp

(* The Relay is gone, or says so.                                             *)
ClearVoice ==
    /\ snap.channel # "none"
    /\ Change([snap EXCEPT !.channel = "none", !.voice = <<>>])
    /\ UNCHANGED stamp

(* The reset notifies whatever the snapshot was.                              *)
ResetTutorial ==
    /\ snap.reset < MaxResets
    /\ Change([snap EXCEPT !.reset = @ + 1])
    /\ UNCHANGED stamp

(* Readers by TCP or by the pipe get the pruned snapshot and leave it so,     *)
(* without a notification.                                                    *)
Read ==
    /\ Pruned(snap) # snap
    /\ snap' = Pruned(snap)
    /\ UNCHANGED <<online, watch, expired, stamp, client, historyVars>>

Expire(n) ==
    /\ n \in {t.stamp : t \in {u \in Elements(snap.toasts) : u.id # Sticky}} \cup Stamps(snap.voice)
    /\ n \notin expired /\ expired' = expired \cup {n}
    /\ UNCHANGED <<online, snap, watch, stamp, client, historyVars>>

-----------------------------------------------------------------------------
(* The watcher.                                                               *)

FriendComes(f) ==
    /\ f \notin online /\ online' = online \cup {f}
    /\ UNCHANGED <<snap, watch, expired, stamp, client, historyVars>>
FriendGoes(f) ==
    /\ f \in online /\ online' = online \ {f}
    /\ steady' = steady \ {f} /\ greeted' = greeted \ {f}
    /\ UNCHANGED <<snap, watch, expired, stamp, client, missed, overrun>>

Refresh == watch.tick = 0

Collected(base, seen) ==
    /\ watch.pc = "idle"
    /\ watch' = [watch EXCEPT !.pc = "set", !.got = base, !.fresh = Refresh]
    /\ missed' = (missed \/ (Refresh /\ ~ seen
                             /\ (~ watch.inited \/ base.friends # watch.cached)))
    /\ UNCHANGED <<online, expired, stamp, client, steady, greeted, overrun>>

(* Without a lockfile the state of the agent decides, read after the snapshot. *)
CollectNoClient(ready) ==
    /\ snap' = Pruned(snap)
    /\ Collected(IF ready /\ snap.base.connected THEN snap.base
                 ELSE Base(ready, {}), FALSE)

CollectUnusable == UNCHANGED snap /\ Collected(Nothing, TRUE)

(* A list that cannot be read is replaced by the one before.                  *)
CollectClient(answers) ==
    /\ UNCHANGED snap
    /\ Collected(Base(TRUE, IF Refresh /\ answers THEN online ELSE watch.cached),
                 answers)

SetWhole(new) == [Blank EXCEPT !.base = new]

(* set_gamebar_snapshot keeps what others pushed while the watcher collected. *)
Merged(new) == [Pruned(snap) EXCEPT !.base = new]

AnnouncesAlways == watch.fresh /\ watch.got.connected
Announces == watch.fresh /\ watch.got.connected /\ watch.inited

SetSnapshot ==
    LET got == watch.got
        kept == ~ watch.fresh \/ got.connected
        coming == IF Announces THEN got.friends \ watch.cached ELSE {}
    IN  /\ watch.pc = "set"
        /\ snap' = Merged(got)
        /\ Notify(snap, snap')
        /\ watch' = [watch EXCEPT
               !.pc = IF coming = {} THEN "idle" ELSE "toasts", !.toast = coming,
               !.got = Nothing, !.fresh = FALSE,
               !.tick = (@ + 1) % RefreshEvery,
               !.inited = IF watch.fresh THEN got.connected ELSE @,
               !.cached = IF watch.fresh THEN IF got.connected THEN got.friends ELSE {} ELSE @]
        /\ steady' = IF kept THEN steady ELSE online
        /\ greeted' = IF kept THEN greeted ELSE {}
        /\ missed' = (kept /\ missed)
        /\ overrun' = overrun \cup ((Stamps(snap.toasts) \cup Stamps(snap.voice))
                                    \ (Stamps(snap'.toasts) \cup Stamps(snap'.voice) \cup expired))
    /\ UNCHANGED <<online, expired, stamp>>

(* A toast per friend, each under an id of its own.                           *)
FriendToast(f) ==
    /\ watch.pc = "toasts" /\ f \in watch.toast /\ stamp < MaxPushes
    /\ stamp' = stamp + 1
    /\ snap' = [Pruned(snap) EXCEPT
                    !.toasts = LastOf(Append(@, [id |-> f, stamp |-> stamp']), MaxToasts)]
    /\ Notify(snap, snap')
    /\ watch' = [watch EXCEPT !.toast = @ \ {f},
                              !.pc = IF watch.toast = {f} THEN "idle" ELSE "toasts"]
    /\ greeted' = greeted \cup ({f} \cap steady)
    /\ UNCHANGED <<online, expired, steady, missed, overrun>>

-----------------------------------------------------------------------------
(* A WebSocket client.                                                        *)

clientOnly == UNCHANGED <<online, watch, expired, stamp, historyVars>>

(* It subscribes before it is sent its first snapshot.                        *)
Sending(notified) == [pc |-> "send", notified |-> notified, seen |-> Blank]

Connect ==
    /\ client.pc = "off"
    /\ client' = Sending(FALSE)
    /\ UNCHANGED snap /\ clientOnly

(* A notification, or the news that some were missed.                         *)
Notified ==
    /\ client.pc = "wait" /\ client.notified
    /\ client' = Sending(FALSE)
    /\ UNCHANGED snap /\ clientOnly

(* The snapshot is taken before it is sent, which may take a while.           *)
Send ==
    /\ client.pc = "send"
    /\ snap' = Pruned(snap)
    /\ client' = [client EXCEPT !.pc = "sending", !.seen = Pruned(snap)]
    /\ clientOnly

SubscribedNow == [client EXCEPT !.pc = "wait", !.notified = FALSE]

(* What is notified while a snapshot is sent makes for another one.           *)
Shown == [client EXCEPT !.pc = "wait"]

Sent ==
    /\ client.pc = "sending"
    /\ client' = Shown
    /\ UNCHANGED snap /\ clientOnly

Disconnect ==
    /\ client.pc # "off"
    /\ client' = [pc |-> "off", notified |-> FALSE, seen |-> Blank]
    /\ UNCHANGED snap /\ clientOnly

Next ==
    \/ \E id \in Sources : PushToast(id) \/ RemoveToast(id)
    \/ \E c \in Channels : PushVoice(c)
    \/ \E m \in Elements(snap.voice) : PushKnownVoice(m)
    \/ ClearVoice \/ ResetTutorial \/ Read
    \/ \E n \in 1..stamp : Expire(n)
    \/ \E f \in Friends : FriendComes(f) \/ FriendGoes(f) \/ FriendToast(f)
    \/ \E known \in BOOLEAN : CollectNoClient(known) \/ CollectClient(known)
    \/ CollectUnusable \/ SetSnapshot
    \/ Connect \/ Notified \/ Send \/ Sent \/ Disconnect

Spec == Init /\ [][Next]_vars

-----------------------------------------------------------------------------
(* Every variable has its type, and the lists keep within their limits.       *)
TypeOK ==
    /\ online \subseteq Friends /\ steady \subseteq Friends /\ greeted \subseteq steady
    /\ snap.base \in [connected : BOOLEAN, friends : SUBSET Friends]
    /\ Len(snap.toasts) <= MaxToasts /\ Len(snap.voice) <= MaxVoice
    /\ snap.channel \in Channels \cup {"none"} /\ snap.reset \in 0..MaxResets
    /\ watch.pc \in {"idle", "set", "toasts"} /\ watch.tick \in 0..RefreshEvery - 1
    /\ expired \subseteq 1..stamp /\ stamp \in 0..MaxPushes
    /\ client.pc \in {"off", "send", "sending", "wait"}

(* A widget that waits for news shows the snapshot as it is: no change falls  *)
(* between the first snapshot and the subscription, or between two sends.     *)
ClientCurrent ==
    client.pc = "wait" /\ ~ client.notified => Pruned(client.seen) = Pruned(snap)

(* Setting what was collected takes no toast and no message away that was     *)
(* pushed meanwhile.                                                          *)
NothingOverrun == overrun = {}

(* The voice messages shown are all of the channel shown.                     *)
VoiceOfChannel == \A m \in Elements(snap.voice) : m.channel = snap.channel

(* Friends who were online before the watcher met the client are not          *)
(* announced, provided that their list could be read when it met it.          *)
Baseline == missed \/ greeted = {}

(* The comment of watch_snapshot promises as much without the proviso: the    *)
(* first friend list is a baseline and not a burst of notifications.          *)
BaselineAlways == greeted = {}
===============================================================================
