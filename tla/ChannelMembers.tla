-------------------------- MODULE ChannelMembers --------------------------
(***************************************************************************)
(* Who is on which channel, as one ircd keeps it (channel.c and the        *)
(* commands that call it).  Every membership is stored twice: as a Member  *)
(* on the channel's list and as a Membership on the user's, each with its  *)
(* own copy of the +qaohv flags and next to a counter.  Invitations and    *)
(* the entries of the join throttle are also linked from both ends.  A     *)
(* channel lives as long as it has members: sub1_from_channel frees it,    *)
(* and nothing may point to it then.                                       *)
(*                                                                         *)
(* A handler runs to its end before the next one.  SJOIN and the part of   *)
(* exit_one_client that takes a user off its channels are modelled step by *)
(* step, since they use pointers across calls that can free a channel.     *)
(* The order of the member lists is left out, that of the invitations is   *)
(* kept: the oldest one gives way when a list is full.                     *)
(***************************************************************************)
EXTENDS Integers, Sequences, FiniteSets

CONSTANTS User,       \* users of the network
          Local,      \* the ones connected to this server
          Oper,       \* the ones that may join any number of channels
          ULine,      \* services
          Insecure,   \* local users without SSL
          Channel,    \* channel names
          Flag,       \* CHFL_CHANOWNER ... CHFL_VOICE
          OpFlag,     \* the ones that is_chan_op looks for
          JoinLevel,  \* set::level-on-join
          MaxChannels,\* MAXCHANNELSPERUSER
          Nil

ASSUME ChannelMembersAssumption ==
  /\ IsFiniteSet(User) /\ IsFiniteSet(Channel)
  /\ Local \subseteq User /\ Oper \subseteq User /\ ULine \subseteq User
  /\ Insecure \subseteq Local
  /\ JoinLevel \subseteq Flag /\ OpFlag \subseteq Flag
  /\ MaxChannels \in Nat \ {0}
  /\ Nil \notin User /\ Nil \notin Channel

VARIABLES
  online,     \* the users that are registered
  channel,    \* the channels on the list `channel' and in the hash table
  members,    \* chptr->members
  users,      \* chptr->users
  membership, \* user->channel
  joined,     \* user->joined
  mflags,     \* flags of the Member structs
  sflags,     \* flags of the Membership structs
  invites,    \* chptr->invites, newest first
  invited,    \* user->invited, newest first
  cjflood,    \* chptr->jflood
  ujflood,    \* user->jflood
  count,      \* IRCstats.channels
  sjoin,      \* chptr of the m_sjoin that is running
  nicks,      \* it is still at its list of nicks
  quit        \* sptr of the exit_one_client that is running

memberVars == <<members, users, membership, joined, mflags, sflags>>
inviteVars == <<invites, invited>>
jfloodVars == <<cjflood, ujflood>>
vars == <<online, channel, memberVars, inviteVars, jfloodVars, count, sjoin,
          nicks, quit>>

Idle == sjoin = Nil /\ quit = Nil

Elements(s) == {s[i] : i \in DOMAIN s}
NoRepeats(s) == \A i, j \in DOMAIN s : s[i] = s[j] => i = j

(* s without the first link to e.                                          *)
Without(s, e) ==
  IF e \notin Elements(s) THEN s
  ELSE LET i == CHOOSE i \in DOMAIN s : s[i] = e /\ \A j \in 1..i-1 : s[j] # e
       IN  [j \in 1..Len(s)-1 |-> IF j < i THEN s[j] ELSE s[j+1]]

Init ==
  /\ online = {}
  /\ channel = {}
  /\ members = [c \in Channel |-> {}]
  /\ users = [c \in Channel |-> 0]
  /\ membership = [u \in User |-> {}]
  /\ joined = [u \in User |-> 0]
  /\ mflags = [c \in Channel |-> [u \in User |-> {}]]
  /\ sflags = [u \in User |-> [c \in Channel |-> {}]]
  /\ invites = [c \in Channel |-> << >>]
  /\ invited = [u \in User |-> << >>]
  /\ cjflood = [c \in Channel |-> {}]
  /\ ujflood = [u \in User |-> {}]
  /\ count = 0
  /\ sjoin = Nil /\ nicks = FALSE /\ quit = Nil

(***************************************************************************)
(* Invitations.                                                            *)
(***************************************************************************)
(* del_invite: the link on either list goes, if it is there.               *)
DelFromChannel(ic, u, c) == [ic EXCEPT ![c] = Without(@, u)]
DelFromUser(iu, u, c) == [iu EXCEPT ![u] = Without(@, c)]

(* Wrong: only the channel's list is searched.                             *)
DelInvite_ChannelSide(u, c) ==
  /\ invites' = DelFromChannel(invites, u, c)
  /\ invited' = invited

DelInvite(u, c) ==
  /\ invites' = DelFromChannel(invites, u, c)
  /\ invited' = DelFromUser(invited, u, c)

(* Wrong: a full list of the user forgets its end, the channel does not.   *)
AddInvite_OneSided(u, c) ==
  LET c1 == DelFromChannel(invites, u, c)
      u1 == DelFromUser(invited, u, c)
      u2 == IF Len(u1[u]) >= MaxChannels
            THEN [u1 EXCEPT ![u] = SubSeq(@, 1, Len(@) - 1)] ELSE u1
      full == Len(c1[c]) >= MaxChannels
      last == c1[c][Len(c1[c])]
      c3 == IF full THEN DelFromChannel(c1, last, c) ELSE c1
      u3 == IF full THEN DelFromUser(u2, last, c) ELSE u2
  IN  /\ invites' = [c3 EXCEPT ![c] = <<u>> \o @]
      /\ invited' = [u3 EXCEPT ![u] = <<c>> \o @]

(* add_invite: an older invitation of the pair goes first, then the last   *)
(* one of the user and the last one of the channel where a list is full.   *)
AddInvite(u, c) ==
  LET c1 == DelFromChannel(invites, u, c)
      u1 == DelFromUser(invited, u, c)
      many == Len(u1[u]) >= MaxChannels
      oldest == u1[u][Len(u1[u])]
      c2 == IF many THEN DelFromChannel(c1, u, oldest) ELSE c1
      u2 == IF many THEN DelFromUser(u1, u, oldest) ELSE u1
      full == Len(c2[c]) >= MaxChannels
      last == c2[c][Len(c2[c])]
      c3 == IF full THEN DelFromChannel(c2, last, c) ELSE c2
      u3 == IF full THEN DelFromUser(u2, last, c) ELSE u2
  IN  /\ invites' = [c3 EXCEPT ![c] = <<u>> \o @]
      /\ invited' = [u3 EXCEPT ![u] = <<c>> \o @]

(***************************************************************************)
(* Members.                                                                *)
(***************************************************************************)
(* get_channel with CREATE: c as it is, or a fresh one.                    *)
GetChannel(c) ==
  /\ channel' = channel \cup {c}
  /\ count' = IF c \in channel THEN count ELSE count + 1

(* add_user_to_channel.                                                    *)
AddUserToChannel(c, u, fl) ==
  /\ members' = [members EXCEPT ![c] = @ \cup {u}]
  /\ users' = [users EXCEPT ![c] = @ + 1]
  /\ membership' = [membership EXCEPT ![u] = @ \cup {c}]
  /\ joined' = [joined EXCEPT ![u] = @ + 1]
  /\ mflags' = [mflags EXCEPT ![c][u] = fl]
  /\ sflags' = [sflags EXCEPT ![u][c] = fl]

(* Wrong: cmodej_delchannelentries is not called.                          *)
FreeChannel_KeepsJFlood(c) ==
  /\ channel' = channel \ {c}
  /\ count' = count - 1
  /\ invites' = [invites EXCEPT ![c] = << >>]
  /\ invited' = [u \in User |-> IF u \in Elements(invites[c])
                                THEN Without(invited[u], c) ELSE invited[u]]
  /\ cjflood' = [cjflood EXCEPT ![c] = {}]
  /\ ujflood' = ujflood

(* What sub1_from_channel does with an empty channel: its invitations and  *)
(* its join throttle entries go from both ends, then the channel.          *)
FreeChannel(c) ==
  /\ channel' = channel \ {c}
  /\ count' = count - 1
  /\ invites' = [invites EXCEPT ![c] = << >>]
  /\ invited' = [u \in User |-> IF u \in Elements(invites[c])
                                THEN Without(invited[u], c) ELSE invited[u]]
  /\ cjflood' = [cjflood EXCEPT ![c] = {}]
  /\ ujflood' = [u \in User |->
                   IF u \in cjflood[c] THEN ujflood[u] \ {c} ELSE ujflood[u]]

(* sub1_from_channel after `gone' members left c.                          *)
Sub1FromChannel(c, gone) ==
  /\ users' = [users EXCEPT ![c] = IF @ >= gone THEN @ - gone ELSE 0]
  /\ IF users[c] <= gone THEN FreeChannel(c)
     ELSE UNCHANGED <<channel, count, inviteVars, jfloodVars>>

(* remove_user_from_channel for every user in U, all of them members.      *)
RemoveFromChannel(U, c) ==
  /\ members' = [members EXCEPT ![c] = @ \ U]
  /\ membership' = [u \in User |-> IF u \in U THEN membership[u] \ {c}
                                   ELSE membership[u]]
  /\ joined' = [u \in User |-> IF u \in U THEN joined[u] - 1 ELSE joined[u]]
  /\ mflags' = [mflags EXCEPT ![c] = [u \in User |->
                                        IF u \in U THEN {} ELSE @[u]]]
  /\ sflags' = [u \in User |-> IF u \in U THEN [sflags[u] EXCEPT ![c] = {}]
                               ELSE sflags[u]]
  /\ Sub1FromChannel(c, Cardinality(U))

(***************************************************************************)
(* Users come.                                                             *)
(***************************************************************************)
Register(u) ==
  /\ Idle /\ u \notin online
  /\ online' = online \cup {u}
  /\ UNCHANGED <<channel, memberVars, inviteVars, jfloodVars, count,
                 sjoin, nicks, quit>>

(***************************************************************************)
(* JOIN, SAJOIN, PART, KICK, INVITE.  A list of channels or of targets is  *)
(* one action after the other.                                             *)
(***************************************************************************)
(* cmodej_increase_usercounter: c is +j and u has no entry yet.            *)
Throttled(u, c) ==
  /\ cjflood' = [cjflood EXCEPT ![c] = @ \cup {u}]
  /\ ujflood' = [ujflood EXCEPT ![u] = @ \cup {c}]

MayJoin(u, c) ==
  /\ Idle /\ u \in online /\ u \in Local
  /\ u \in Oper \/ joined[u] < MaxChannels
  /\ c \notin membership[u]

(* A hook or can_join says no; a channel that was made for this JOIN is    *)
(* freed again.  can_join alone never refuses a fresh channel: it has no   *)
(* modes and no bans yet.                                                  *)
JoinRejected(u, c) ==
  /\ MayJoin(u, c)
  /\ UNCHANGED vars

(* Wrong: join_channel leaves the invitation.                              *)
Join_KeepsInvite(u, c, plusj) ==
  /\ MayJoin(u, c)
  /\ plusj => c \in channel
  /\ GetChannel(c)
  /\ AddUserToChannel(c, u, IF c \in channel THEN {} ELSE JoinLevel)
  /\ IF plusj THEN Throttled(u, c) ELSE UNCHANGED jfloodVars
  /\ UNCHANGED inviteVars
  /\ UNCHANGED <<online, sjoin, nicks, quit>>

(* JOIN of a local user, with c +j or not: the first one in gets the level *)
(* of set::level-on-join, the invitation is used up.                       *)
Join(u, c, plusj) ==
  /\ MayJoin(u, c)
  /\ plusj => c \in channel
  /\ GetChannel(c)
  /\ AddUserToChannel(c, u, IF c \in channel THEN {} ELSE JoinLevel)
  /\ IF plusj THEN Throttled(u, c) ELSE UNCHANGED jfloodVars
  /\ DelInvite(u, c)
  /\ UNCHANGED <<online, sjoin, nicks, quit>>

(* SAJOIN of a local user: no limit, CHFL_CHANOP for the first one in.     *)
SaJoin(u, c, op) ==
  /\ Idle /\ u \in online /\ u \in Local
  /\ c \notin membership[u]
  /\ GetChannel(c)
  /\ AddUserToChannel(c, u, IF c \in channel THEN {} ELSE op)
  /\ DelInvite(u, c)
  /\ UNCHANGED <<online, jfloodVars, sjoin, nicks, quit>>

(* JOIN of a remote user, from a server without SJOIN.                     *)
RemoteJoin(u, c) ==
  /\ Idle /\ u \in online /\ u \notin Local
  /\ c \notin membership[u]
  /\ GetChannel(c)
  /\ AddUserToChannel(c, u, {})
  /\ UNCHANGED <<online, inviteVars, jfloodVars, sjoin, nicks, quit>>

(* PART, SAPART, JOIN 0, KICK and the kick of a +f flood.                  *)
Part(u, c) ==
  /\ Idle /\ c \in membership[u]
  /\ RemoveFromChannel({u}, c)
  /\ UNCHANGED <<online, sjoin, nicks, quit>>

IsChanOp(u, c) == sflags[u][c] \cap OpFlag # {}

(* m_invite accepts an INVITE of u by s and remembers it: s is on the      *)
(* channel, a service, or an oper who lets himself in, and has the rights. *)
MayInvite(s, u, c) ==
  /\ Idle /\ {s, u} \subseteq online
  /\ c \in channel
  /\ c \in membership[s] \/ s \in ULine \/ (s = u /\ s \in Oper)
  /\ IsChanOp(s, c) \/ s \in ULine \/ s \in Oper
  /\ u \in Local

(* INVITE of a user of this server who is not on the channel.              *)
Invite(s, u, c) ==
  /\ MayInvite(s, u, c)
  /\ c \notin membership[u]
  /\ AddInvite(u, c)
  /\ UNCHANGED <<online, channel, memberVars, jfloodVars, count,
                 sjoin, nicks, quit>>

(* cmodej_cleanup_structs and cmodej_delentry: an entry that timed out.    *)
JFloodExpires(u, c) ==
  /\ Idle /\ u \in cjflood[c]
  /\ cjflood' = [cjflood EXCEPT ![c] = @ \ {u}]
  /\ ujflood' = [ujflood EXCEPT ![u] = @ \ {c}]
  /\ UNCHANGED <<online, channel, memberVars, inviteVars, count, sjoin, nicks, quit>>

(***************************************************************************)
(* Flags of the members.                                                   *)
(***************************************************************************)
(* Wrong: only the Member is changed.                                      *)
MemberMode_OneCopy(u, c, f, add) ==
  /\ Idle /\ c \in membership[u] /\ u \in members[c]
  /\ LET fl == IF add THEN mflags[c][u] \cup {f} ELSE mflags[c][u] \ {f} IN
     /\ mflags' = [mflags EXCEPT ![c][u] = fl]
     /\ sflags' = sflags
  /\ UNCHANGED <<online, channel, members, users, membership, joined,
                 inviteVars, jfloodVars, count,
                 sjoin, nicks, quit>>

(* do_mode_char_member for q, a, o, h, v: the Member is changed, and the   *)
(* Membership gets a copy of it.                                           *)
MemberMode(u, c, f, add) ==
  /\ Idle /\ c \in membership[u] /\ u \in members[c]
  /\ LET fl == IF add THEN mflags[c][u] \cup {f} ELSE mflags[c][u] \ {f} IN
     /\ mflags' = [mflags EXCEPT ![c][u] = fl]
     /\ sflags' = [sflags EXCEPT ![u][c] = fl]
  /\ UNCHANGED <<online, channel, members, users, membership, joined,
                 inviteVars, jfloodVars, count,
                 sjoin, nicks, quit>>

(* The flags in F are taken from every member; the Membership, when there  *)
(* is one, gets a copy.                                                    *)
ClearFlags(c, F) ==
  /\ mflags' = [mflags EXCEPT ![c] = [u \in User |-> @[u] \ F]]
  /\ sflags' = [u \in User |->
                  IF u \in members[c] /\ c \in membership[u]
                  THEN [sflags[u] EXCEPT ![c] = mflags[c][u] \ F]
                  ELSE sflags[u]]

(* SVSMODE #channel -f of services.                                        *)
SvsClearFlag(c, f) ==
  /\ Idle /\ c \in channel
  /\ ClearFlags(c, {f})
  /\ UNCHANGED <<online, channel, members, users, membership, joined,
                 inviteVars, jfloodVars, count,
                 sjoin, nicks, quit>>

(***************************************************************************)
(* m_sjoin, which keeps chptr across all of its steps.                     *)
(***************************************************************************)

(* get_channel, and the loss of our modes when the other side is older.    *)
SJoin(c, removeours) ==
  /\ Idle
  /\ GetChannel(c)
  /\ sjoin' = c /\ nicks' = TRUE
  /\ IF removeours THEN ClearFlags(c, Flag) ELSE UNCHANGED <<mflags, sflags>>
  /\ UNCHANGED <<online, members, users, membership, joined, inviteVars,
                 jfloodVars, quit>>

(* Wrong: no look at whether the user is on the channel.                   *)
SJoinMember_Twice(u, fl) ==
  /\ sjoin # Nil /\ nicks
  /\ u \in online /\ u \notin Local
  /\ AddUserToChannel(sjoin, u, fl)
  /\ UNCHANGED <<online, channel, inviteVars, jfloodVars, count,
                 sjoin, nicks, quit>>

(* A nick of the list that is a user behind the link and no member yet; fl *)
(* is empty when our side is older.                                        *)
SJoinMember(u, fl) ==
  /\ sjoin # Nil /\ nicks
  /\ u \in online /\ u \notin Local
  /\ u \notin members[sjoin]
  /\ AddUserToChannel(sjoin, u, fl)
  /\ UNCHANGED <<online, channel, inviteVars, jfloodVars, count,
                 sjoin, nicks, quit>>

(* kick_insecure_users, when the modes of the SJOIN make the channel +z.   *)
KickInsecureUsers ==
  /\ sjoin # Nil /\ nicks
  /\ members[sjoin] \cap Insecure # {}
  /\ nicks' = FALSE
  /\ RemoveFromChannel(members[sjoin] \cap Insecure, sjoin)
  /\ UNCHANGED <<online, sjoin, quit>>

(* The end on a channel that KickInsecureUsers has freed: what it reads    *)
(* there is not 0, and it leaves the block alone.  When it reads 0 the     *)
(* block is freed twice, and there is no next state.                       *)
SJoinEndFreed ==
  /\ sjoin # Nil /\ sjoin \notin channel
  /\ sjoin' = Nil /\ nicks' = FALSE
  /\ UNCHANGED <<online, channel, count, memberVars, inviteVars, jfloodVars, quit>>

(* The end: a channel that has nobody is freed.                            *)
SJoinEnd ==
  /\ sjoin \in channel
  /\ sjoin' = Nil /\ nicks' = FALSE
  /\ IF users[sjoin] = 0 THEN FreeChannel(sjoin)
     ELSE UNCHANGED <<channel, count, inviteVars, jfloodVars>>
  /\ UNCHANGED <<online, memberVars, quit>>

(***************************************************************************)
(* exit_one_client for a user: cmodej_deluserentries, then one channel and *)
(* one invitation after the other.                                         *)
(***************************************************************************)
Quit(u) ==
  /\ Idle /\ u \in online
  /\ quit' = u
  /\ cjflood' = [c \in Channel |->
                   IF c \in ujflood[u] THEN cjflood[c] \ {u} ELSE cjflood[c]]
  /\ ujflood' = [ujflood EXCEPT ![u] = {}]
  /\ UNCHANGED <<online, channel, memberVars, inviteVars, count, sjoin, nicks>>

QuitChannel(c) ==
  /\ quit # Nil
  /\ c \in membership[quit]
  /\ RemoveFromChannel({quit}, c)
  /\ UNCHANGED <<online, sjoin, nicks, quit>>

QuitInvite ==
  /\ quit # Nil
  /\ membership[quit] = {} /\ invited[quit] # << >>
  /\ DelInvite(quit, invited[quit][1])
  /\ UNCHANGED <<online, channel, memberVars, jfloodVars, count,
                 sjoin, nicks, quit>>

QuitEnd ==
  /\ quit # Nil
  /\ membership[quit] = {} /\ invited[quit] = << >>
  /\ online' = online \ {quit}
  /\ quit' = Nil
  /\ UNCHANGED <<channel, memberVars, inviteVars, jfloodVars, count, sjoin, nicks>>

Next ==
  \/ \E u \in User : Register(u) \/ Quit(u)
  \/ \E u \in User, c \in Channel :
       \/ JoinRejected(u, c) \/ RemoteJoin(u, c) \/ Part(u, c)
       \/ JFloodExpires(u, c)
       \/ \E plusj \in BOOLEAN : Join(u, c, plusj)
       \/ \E op \in SUBSET Flag : SaJoin(u, c, op)
       \/ \E s \in User : Invite(s, u, c)
       \/ \E f \in Flag, add \in BOOLEAN : MemberMode(u, c, f, add)
  \/ \E c \in Channel :
       \/ \E f \in Flag : SvsClearFlag(c, f)
       \/ \E removeours \in BOOLEAN : SJoin(c, removeours)
       \/ QuitChannel(c)
  \/ \E u \in User, fl \in SUBSET Flag : SJoinMember(u, fl)
  \/ KickInsecureUsers \/ SJoinEnd \/ SJoinEndFreed
  \/ QuitInvite \/ QuitEnd

Spec == Init /\ [][Next]_vars

(* exit_one_client is a call: once begun it goes on to its end.            *)
QuitStep == QuitInvite \/ QuitEnd \/ \E c \in Channel : QuitChannel(c)
FairSpec == Spec /\ WF_vars(QuitStep)

(***************************************************************************)
(* Properties.                                                             *)
(***************************************************************************)
TypeOK ==
  /\ online \subseteq User /\ channel \subseteq Channel
  /\ members \in [Channel -> SUBSET User]
  /\ users \in [Channel -> Nat]
  /\ membership \in [User -> SUBSET Channel]
  /\ joined \in [User -> Nat]
  /\ mflags \in [Channel -> [User -> SUBSET Flag]]
  /\ sflags \in [User -> [Channel -> SUBSET Flag]]
  /\ invites \in [Channel -> Seq(User)]
  /\ invited \in [User -> Seq(Channel)]
  /\ cjflood \in [Channel -> SUBSET User]
  /\ ujflood \in [User -> SUBSET Channel]
  /\ count \in Nat
  /\ sjoin \in Channel \cup {Nil} /\ nicks \in BOOLEAN
  /\ quit \in User \cup {Nil}

(* The two lists of a membership never disagree, nor the flags on them:    *)
(* what is_chan_op reads from the user's side is what NAMES, SJOIN and     *)
(* m_mode read from the channel's.                                         *)
MembersAgree ==
  \A u \in User, c \in Channel :
     /\ u \in members[c] <=> c \in membership[u]
     /\ mflags[c][u] = sflags[u][c]

(* chptr->users, user->joined and IRCstats.channels count what they say;   *)
(* sub1_from_channel decides by the first when a channel goes.             *)
CountersExact ==
  /\ \A c \in Channel : users[c] = Cardinality(members[c])
  /\ \A u \in User : joined[u] = Cardinality(membership[u])
  /\ count = Cardinality(channel)

(* Between two handlers a channel is there exactly as long as somebody is  *)
(* on it.                                                                  *)
ChannelLives ==
  \A c \in Channel :
     /\ members[c] # {} => c \in channel
     /\ c \in channel /\ members[c] = {} => sjoin = c

(* An invitation is on the lists of both ends, once, and the lists keep to *)
(* the limit.                                                              *)
InvitesAgree ==
  /\ \A u \in User, c \in Channel : u \in Elements(invites[c])
                                    <=> c \in Elements(invited[u])
  /\ \A c \in Channel : NoRepeats(invites[c]) /\ Len(invites[c]) <= MaxChannels
  /\ \A u \in User : NoRepeats(invited[u]) /\ Len(invited[u]) <= MaxChannels

(* Who is on a channel has no invitation to it left that would let him in  *)
(* again after a ban or a +i; nobody but local users has any.              *)
InviteUsedUp ==
  \A u \in User : \A c \in Elements(invited[u]) :
     u \in Local /\ c \notin membership[u]

(* Nothing points to a channel that was freed or to a user who is gone.    *)
NoDangling ==
  /\ \A u \in User : Elements(invited[u]) \cup ujflood[u] \cup membership[u]
                       \subseteq channel
  /\ \A c \in Channel : Elements(invites[c]) \cup cjflood[c] \cup members[c]
                          \subseteq online
  /\ \A u \in User, c \in Channel : u \in cjflood[c] <=> c \in ujflood[u]

(* The loops that empty the two lists of a user end.                       *)
QuitEnds == quit # Nil ~> quit = Nil

(* m_sjoin ends with `if (!chptr->users) sub1_from_channel(chptr)': its    *)
(* channel is still allocated then.                                        *)
SJoinHolds == sjoin # Nil => sjoin \in channel
=============================================================================
