# A TLA+ model of gs-ircd

gs-ircd is an IRC daemon, a descendant of UnrealIRCd 3.2: about 80,000 lines of C in `src/src`
(the core) and `src/src/modules` (one file per command). This directory holds TLA+ modules
translated from that code, TLC configurations that check them on small instances, and TLAPS
proofs for every value of the constants. Paths below are relative to the directory that holds
`src/` and `tla/`.

1. [The system](#the-system)
2. [Modules, and how they follow the code](#modules-and-how-they-follow-the-code)
3. [Runs](#runs)
4. [Proofs](#proofs)
5. [Where the code disagrees with what it says](#where-the-code-disagrees-with-what-it-says)
6. [What is not modelled](#what-is-not-modelled)
7. [Plan](#plan)

## The system

One process, one thread. `SocketLoop` (`src/src/ircd.c`) calls `read_message`, which polls the
sockets and calls the handlers; events, timers and the look-ups of c-ares and libcurl are
called from the same loop. A handler runs to its end before the next one starts, so there are
no data races. What makes the program hard is elsewhere:

- **re-entry**: a handler calls `exit_client`, `do_cmd` or a hook, which free structs that the
  caller, or a loop further up the stack, still has pointers to;
- **redundancy**: nearly every fact is stored at both of its ends and once more in a counter
  (members and memberships, invitations, users of a server, LUSERS);
- **several sides**: servers exchange state over links on which messages cross: nicks collide,
  channels merge, links split and return, and each server works out again what a message means;
- **time**: pings, fake lag, flood timers and look-ups that race what they wait for;
- **limits**: sendQ, recvQ, the buffer pool, the DNS cache, lists with a maximum;
- **REHASH**: blocks, modules and includes are replaced while clients hold on to the old ones.

| Component | Code | State | Operations | Talks to | What makes it correct |
|---|---|---|---|---|---|
| client table and exits | `list.c`, `s_misc.c`, `s_bsd.c`, `m_close.c` | the list of `aClient`, `srvptr`, `from`, listen counts, `IRCstats` | accept, connect, handshakes, register, introduce, CLOSE, `exit_client` | everything: every handler holds pointers into it | counters exact, walks survive their own recursion, only the branch of the exited struct goes, the structs form a tree |
| operators and counted modes | `m_oper.c`, `m_mode.c`, `m_svsmode.c`, `m_svso.c`, `m_svsnoop.c`, `fdlist.c` | umodes, `IRCstats.operators` and `.invisible`, `oper_fdlist` | OPER, MODE, SVSMODE, SVSO, SVSNOOP, exit | client table, send.c | list and counters equal what the modes say |
| dynamic buffers | `dbuf.c` | chains of blocks, freelist, `dbufalloc` | put, get, delete, getmsg | message loop | a stream of bytes; no block lost or shared |
| channel membership | `channel.c`, `m_join.c`, `m_part.c`, `m_kick.c`, `m_invite.c`, `m_sjoin.c` | members, memberships, flags, invitations, join throttle, counters | JOIN, SAJOIN, PART, KICK, INVITE, MODE qaohv, SVSMODE, SJOIN, exit | client table, links | both ends agree; a channel lives while it has members; nothing points to a freed one |
| channel modes | `m_mode.c`, `extcmodes.c`, `m_samode.c` | modes of a channel, parameters | MODE letter by letter, the line for other servers, modes-on-join | links, membership | the next server does the same with the line that this one writes |
| message loop and timers | `s_bsd.c`, `send.c`, `packet.c`, `parse.c`, `ircd.c` | sendQ, recvQ, `FLAGS_BLOCKED/DEADSOCKET/NONL/PINGSENT`, `lasttime`, `since`, `firsttime` | poll, read, write, process, ping, flush | every command | no output and no line is stranded, the silent, the dead and the unregistered go in bounded time, nobody else does |
| registration, CAP, SASL | `m_nick.c`, `m_user.c`, `m_pingpong.c`, `m_cap.c`, `m_sasl.c` | what is still missing, the SASL session | NICK, USER, PONG, CAP, AUTHENTICATE, late answers of agents | services, client table | who is ready is a user; nobody gets an account that is not his |
| look-ups | `res.c`, `s_auth.c` | pending requests, cache, ident sockets | request, answer, timeout | message loop, link blocks | an answer never reaches a struct that is gone; nothing is left over |
| nicks | `m_nick.c`, `m_kill.c`, `m_svsnick.c` | nick tables of all servers | NICK, KILL, collisions, bursts | links | both sides of a collision kill the same user |
| channel synchronisation | `m_sjoin.c`, `m_mode.c` | creation times, modes, bans | SJOIN, MODE with TS, bounces | links, membership | both sides of a split end equal; nobody rides it |
| server links | `m_server.c`, `m_protoctl.c`, `m_eos.c`, `m_squit.c`, `s_serv.c` | handshake flags, pendingnet, EOS | PASS, SERVER, EOS, SQUIT, autoconnect | client table, configuration | a tree that all servers know |
| bans | `m_tkl.c`, `s_kline.c` | TKL lists | add, remove, expire, burst | links | both sides hold the same bans, and clients feel them |
| commands between servers | about 60 of `modules/`, `s_user.c` | a field of a user or server | SVS..., CHG..., queries, announcements | links | carried out where due, once, by those who may |
| messages | `m_message.c`, `send.c`, `m_alias`, `m_wallops.c` ... | marks, `sendanyways` | one message | links, channels | who is to hear it does, once, and nobody else |
| queries | `m_who.c`, `m_whois.c`, `m_list.c`, `m_names.c` ... | LIST in parts | one query | channels | what others keep secret is shown by few commands only, and these are known |
| link and class blocks | `s_conf.c`, `s_extra.c` | blocks with reference counts | REHASH, attach, detach | look-ups, clients | no block freed while referenced |
| configuration blocks | `s_conf.c` | what was loaded | test, load, REHASH | all | what the test accepts can be used; a REHASH is a restart |
| remote includes | `s_conf.c`, `url.c` | entries, cache/ , downloads | download, REHASH, crash | configuration | what was fetched is used |
| modules | `modules.c`, `umodes.c`, `extcmodes.c`, `api-command.c`, `events.c` | tables of objects with owners | load, unload, REHASH | all | nothing is called in a module that is gone |
| flood protection | `channel.c`, `m_message.c` | +f counters, mode timers | messages, joins, timers | channels | modes set by a flood are taken back, all of them and no others |
| watch, DCC allow, whowas | `hash.c`, `m_watch.c`, `m_dccallow.c`, `whowas.c` | lists linked from two ends, a ring | add, remove, nick change, exit | client table | what a watcher was told last is so; a chase finds the right user |
| parser, hash tables, pure functions, ports | `parse.c`, `hash.c`, `match.c`, `cidr.c`, `crule.c`, `win32/` | none of their own | | | functional |

`PROJECT.json` lists the components with what is modelled of each, and 40 hazards: the places in
the code where a test would hardly notice that something goes wrong, each with the properties
that would. Some more that no property is about yet: the failure of `SSL_new` in
`add_connection`, which frees a struct that is already on the list (`src/src/s_bsd.c:1442`);
`do_cmd` MODE in `register_user`, which can exit the user whose struct is used afterwards
(`src/src/modules/m_nick.c:1153`); and `fix_timers`, which repairs by hand each time of the server
when the clock is set back (`src/src/ircd.c:914`).

## Modules, and how they follow the code

An action is a handler with everything it calls; a handler is split into steps only where it
keeps pointers across calls that can free what they point to. `PROJECT.json`, "map", gives the
lines of every definition. Definitions named `X_Something` with a comment "Wrong: ..." are
variants of `X` with a plausible bug; no specification uses them, they serve to show that the
properties notice.

### One server: clients, channels, bytes

**ClientTable**, **ClientTree**. `status` of a struct is `cptr->status`, or `"free"` for an address that
is not allocated; `fd` is open, closed or remote; `from`, `srvptr`, `listener`, `list`, `users` are the
fields of the same names, `IRCstats` the counters, `lclients` the `clients` of each listen block.
`exit_client` is modelled step by step: `stack` holds a frame for every running call with its
program counter and the `next` pointer (`cursor`) it has saved. `"start"` counts off and closes the
socket, `"users"` and `"servers"` are the two walks over the list, `"one"` is `exit_one_client` and
the removal from the list; CLOSE (`"close"`) walks in the same way. Other actions need an empty
stack. `ClientTree` is the promise to the rest of the program: structs join below a struct that is
there, never move, and are freed when nothing is left below them.

**OperCount**. `modes` holds the four flags that the statistics depend on. A mode string is applied
character by character by a fold (`UmodeString`, `SvsChar`), then the adjustments at the end of
`m_umode` follow. The quarantine kill in the middle of a string is an action of its own.
`VERIFY_OPERCOUNT`, which recounts when the count is negative, is `Verify`. `off` is history: the counts
that the last step took wrongly, at one of the places where the code does; a behaviour ends there.

**DBuf**, **ByteQueues**. `dbuf[q]` has the four fields of `struct DBuf`; `mem` the `next` pointer and the
data of every block, the freelist and the two counts. The loops of `dbuf_put` and `dbuf_delete`
are functions of their rounds (`Putting`, `Deleting`). `ByteQueues` is the abstract stream; the
refinement mapping reads a queue as the bytes of its chain from `offset` on.

**ChannelMembers**. `members`/`users`/`mflags`/`invites`/`cjflood` are the channel's ends, `membership`/
`joined`/`sflags`/`invited`/`ujflood` the user's; each action changes both as its code does.
`can_join` and `can_kick` are abstracted to their answers. `m_sjoin` is three steps, `exit_one_client`
one step per channel and per invitation. The lists of invitations keep their order, since the
oldest gives way; the order of members is left out.

**ModeLines**. A MODE line is carried out letter by letter at server A with the parameters that are
left, written anew by `make_mode_str`, and carried out by B. Lines come from a member, an
operator, SAMODE, services or modes-on-join. Plain letters without rules of their own are one.

**LinkIO**. One pass of the loop: `Poll`, `AddConnection` and `LookUp` while the ports are looked at, a
visit (`Visit...`) to each connection in `todo`, the processing of its input (`Command`,
`ServerCommand`, `NoLine`), `FlushVisited`, then `Tick` (the time moves), `CheckPing` for each
connection when `nextping` has come, and `FlushConnection` for each. A connection is a record; the
functions of send.c map it to the set of records they can leave, the kernel deciding. The two
builds differ in `Visited`: with `USE_POLL` only connections with a pollfd are visited. Queues are
counted in messages, with `Step` messages in the 1024 bytes of `lastsq`; the recvQ is whole lines
and a tail. Times are ages; `open`, `heard`, `asked` and `corpse` are history variables.

**Registration**. One slot of `local[]` that connections use one after the other; `local` is what is known
of the present one. An answer of an agent carries slot and cookie and may come at any time.
CAP END waits neither for the cookie nor for USER, as in the code. Services are external.

**ClientDns**. `requests`, `cache_list`, `cache_hashtbl` as in res.c; a request points to its client
until `unrealdns_delreq_bycptr`. c-ares may answer inside the call. **LinkConf** has the requests for
link blocks, which hold a counted reference.

**LinkConf**. `class` and `link` are the blocks in memory (`there`), in the configuration (not `temporary`)
or not; `conns`, `req` what points to them. REHASH is one action in the order of `config_rehash`.

**ConfBlocks**. Every directive is a row of a table: the steps that an entry goes through in
`_test_<block>` and what `_conf_<block>` does with it. An entry has a good, a bad or no value. `kept`
is history: the block was there when the new files were loaded over it.

**Modules** follows `init_conf` through its phases; an object (efunction, callback, command, hook,
event, mode) is on its table with its owner, of the old or of the new generation. **Includes**:
`conf_include` has the entries, `cache` the copies, `transfers` the downloads, each of which may
fail. Crashes and restarts are actions.

**ChanFlood**, **WatchList**, **Whowas**, **DccAllow** hold the lists of the same names. **Lists** has what several
components do to a linked list: take members off while walking it. In Whowas `left` is history, not state of
the program: who left each nick last, how long ago, and how many entries came after. `exit_one_client` takes
a user off both the whowas ring (`ClientExits`) and the DCCALLOW lists (`DccExit`); **UserLists** has the two
components together, with the property that they share.

**Visibility**. A situation (`view`) of two users and two channels is chosen at the start; each query is
an operator from it to what is shown: pairs such as `<<"on", "t", "x">>`. `Leaks` names those that the code shows
against the rule. LIST is sent in parts while channels come and go. Of STATS the
model has the table of lists with their letters and names, the look-up by either, the letters that
`set::oper-only-stats` keeps from users (`view.only`), and STATS L, which shows connections.

### Several servers

**NickNet**, **ChannelTS**, **ServerLink**, **Tkl**: every server has all that it knows in a record, and
a queue of messages to each neighbour. Handlers map a record to a record, with messages appended
to the queues. A link that goes away takes its queues along; splits and what users do are bounded
by constants (`MaxSplits`, `MaxOps`, ...).

**Orders** and **Delivery**: a line of three servers and one to three commands or one message; each
handler says whom it obeys, what it changes, and where it goes. In Orders links may break. In
ChannelTS `clash` and `forgot` are history: a message of one of the kinds that do not commute has
crossed another. In Delivery `Excepted` names the users of whom nothing is claimed of a message.

### Modules for TLC

Components that have no variables in common share a run: `MCRooms` (ChannelMembers, ModeLines),
`MCLists` (ChannelMembers, LinkConf, OperCount, WatchList, UserLists, ConfBlocks,
Visibility), `MCFlows` (Registration, ClientDns, DBuf, ChanFlood, Modules, Includes) and `MCNet`
(ServerLink, Tkl, Orders, Delivery). `part` says which component a behaviour is of; the others
keep their initial state, so the number of states is the sum of those of the parts, and what is
said of a part is looked at in its own behaviours. In `MCNet` the circle of three servers is the
same seen from each of them, so `a` makes the first connection. `MCClientTable`,
`MCLinkIO`, `MCNickNet`, `MCChannelTS` and `MCIncludes` are for one component; `MCChannelTS` has it on two
networks, three servers in a line and a pair.

## Runs

Twelve runs, nine that pass and three that show a disagreement. Together the passing runs take
every action and every disjunct of the next-state relations. Each property has a mutant in
`PROJECT.json`: a wrong variant of a modelled definition under which TLC finds it violated.

| Run | Instance | Checks | Shows |
|---|---|---|---|
| `table_plain` | 4 structs, 1 listener, no SSL | `CountsExact` `UnknownExact` `ClientsSound` `OnlyBranchFreed` `TreeSpec` | counters, list and routes are right at each step of each exit; an exit frees its own branch only; the saved `next` never goes stale |
| `table_ssl` | 3 structs, 2 listeners, one with SSL | `ListenerExact` `ExitEnds` | the counts of the listen blocks through every handshake state; exits end |
| `members_core` | 3 users, 2 channels, lists of 1; lines of 3 letters, 2 parameters to a line | `MembersAgree` `CountersExact` `InviteUsedUp` `NoDangling` `QuitEnds` `LinesSound` | both ends of every link agree, nothing dangles; the neighbour ends with the same modes as the server that carried the line out |
| `linkio_loop` | 1 connection, both builds | `BlockedTried` `NoLineStuck` `GoneInTime` `SelectServes` `TimeoutIsSilence` `BlockedEnds` | the message loop |
| `nick_line` | 3 servers in a line, a user at each end, 1 command, 1 split | `NicksSound` `Settles` | collisions end, with the same survivor everywhere |
| `chan_line` | the same with a channel, and 2 servers with 2 commands each of more modes before they link | `MergesSound` `MergesEnd` | merges by timestamp |
| `net` | 3 servers that connect in a circle, 3 connections, 1 trouble; 2 servers with 3 bans and a tick of the clock; 3 servers in a line for commands and messages | `LinksSound` `CircleSettles` `BansBite` `AgreedAtRest` `HeardRight` | what servers tell each other |
| `lists` | 2 or 3 users, mode strings of 2; 2 connections, 2 look-ups, 3 classes, memory for 2 link blocks; entries given 0 to 2 times; 2 users and 2 channels to be seen | `BlocksHold` `WatchersKnow` `UsersTraced` `ServerSound` `InvitesAgree` `ShownRight` | what a server keeps about clients, and shows of them |
| `flows` | 3 clients from 2 addresses, 2 look-ups at once, a cache of 1, 2 agents, 2 queues with 2 blocks of 2 bytes, +f with 2 settings, 3 module and 4 include configurations | `WaitsSound` `RegistrationSound` `BytesSpec` `FloodModesSound` `ModulesSound` `IncludesSound` | what a server does for one connection or channel, and REHASH |
| `members_insecure` | 3 users without SSL | `SJoinHolds` (violated) | finding: SJOIN with +z |
| `linkio_poll` | 1 connection, poll | `RecvQServed` (violated) | finding: a full recvQ is not polled |
| `includes_down` | 3 includes, 2 of them remote | `StillRehashes` (violated) | finding: the cached copy is removed |

What the properties of several parts are made of: `ClientsSound` is `FramesListed`, `ListExact`,
`NoDangling`, `UsersExact` and `RouteExact`; `GoneInTime` is `SilentGone`, `UnknownGone` and `DeadGone`;
`BlockedTried` is `BlockedHasQueue` and `GrowthIsTried`; `AgreedAtRest` is `TklAgreeAtRest` of Tkl and `OrdersSound`
of Orders; `MergesSound` is `ChannelsAgreeAtRest` and `NoRiding` of ChannelTS, on both networks, and `MergesEnd` that the queues
there are empty in the end (`AllRead`); `UsersTraced` is `ChaseIsRight` of Whowas and `LinkedBack` of DccAllow; `ServerSound` is `OpersCounted`,
`AcceptedIsUsable` and `RehashIsRestart`; the conjuncts of the others (`NicksSound`, `LinksSound`, `WaitsSound`,
`RegistrationSound`, `WatchersKnow`, ...) stand with their comments above them in the modules.

**Bounds, and why they are enough.** Four structs are a local server, a server behind it and
users on both, or two links with a user each: the recursion of `exit_client` then has depth two,
with a sibling before and after it on the list, in every order of arrival. Three structs with SSL
suffice for the handshakes, which do not interact. Lists of one invitation evict in every INVITE;
those of `lists` have two. Mode lines of three letters out of a family of letters that bear on each
other (`Together` in MCRooms) reach every rule that relates two letters, and a line broken by
`MAXMODEPARAMS`. In `linkio_loop` one connection is enough because the loop handles each by itself,
and what the others do to it is `OtherWork`; a queue limit of 2, recvQ limits of 2 and 3, and
ping times of 2 make each limit be reached, passed and missed by one. Two blocks and two queues
force a put to fail after its first block with the other queue holding one. Three servers in a
line are the least with a server that only passes on, and with links on which messages are under
way in both directions at once; one split and one command of a user give each handler its messages
in every order. The circle of three is the shortest way to build a loop that no server sees by
itself; every link opened in one direction, each once. Two servers that have not met may each
make two changes to a channel of the same or of another time: then both have flags, keys, bans or
operators that the other has not when their bursts cross, which is what the merge rules of `m_sjoin` are for.
In Tkl the clock goes from 1 to 2, so that a ban set for a time ends, before or after it was merged, removed or set
again, and a shun may end while another still silences the client; what is set after that does not
end. Users are three in OperCount, one local, one remote and one behind a quarantined link; each
counts by himself, strings of two changes are enough for all that one letter does to another, and
SVSNOOP finds one operator at most. A cache of one name is full at once, and each further name evicts; two
look-ups under way are enough for an answer that comes after its client has gone and another has
asked. Where a component is proved, the bounds of its run do not matter.

**Counters** are bounded by the number of structs. In `LinkIO` the ages are bounded by `GoneInTime`
itself: were it wrong, the state space would not be finite. Bounds on what happens
(`MaxOps`, `MaxSplits`, `MaxConnects`, `MaxTroubles`, `MaxRequests`, `MaxSessions`, `MaxConns`, `MaxTime`,
`MaxTimers`, `MaxVersion`, `MaxFaults`, `MaxOrders`, `MaxEntries`) are guards of the actions that they
bound. Where these make a behaviour stop, the configuration says `CHECK_DEADLOCK FALSE`; the table, the
channels and the loop never stop, and deadlock is checked there.

**Fairness.** `ClientTable`: weak fairness of the steps of a running `exit_client`; `ChannelMembers`: of
those of a running `exit_one_client`. Both are function calls, which go on. `NickNet` and `ChannelTS`:
weak fairness of reading what has arrived; `ServerLink`: of the work of the ircds, which CircleSettles
uses once nothing else breaks. For TLC these name the steps that read by what they do to the queues
(`Reads`), which only they do. `ChanFlood`: the clock goes on and the event `modef_event` runs.
`LinkIO`: weak fairness of the loop; strong fairness of a pass in which the time moves (a pass waits
in poll for up to a second); and, for `BlockedEnds` only, strong fairness of a write that takes the
whole queue while the connection is polled for output. The last is an assumption on the peer, not on
the code: that it reads. Nothing is assumed about clients otherwise.

## Proofs

`tlapm` checks eight modules. The only assumptions are the sorts of the constants and what the
code's `#define`s say of them: the ASSUMEs of the modules, or the `...Assumption` that a theorem has as
its hypothesis, and that the module of a passing run ASSUMEs, so that TLC evaluates it; one theorem,
`BansAreInForce`, has a hypothesis more (below). `PROJECT.json` lists 34 theorems; they rest on about 500
lemmas.

**ClientTable_proofs.** `TypeOK`; `CountsExact`, `ListenerExact`; `UnknownExact` for builds without SSL. The
counters are not inductive by themselves: that a handler counts a struct off once depends on how
`status`, `fd` and `srvptr` go together (`StructOK`) and on which struct a frame of `exit_client` is about
(`FramesOK`): a struct with a closed socket belongs to exactly the frame that is about to free it.
The cardinalities go up or down by one with a struct that joins or leaves a set.

Its second part proves `ClientsSound`, `OnlyBranchFreed` and the refinement `TreeSpec`. New structs are put at
the head of the list, so a struct always stands before the server it is on. An exit therefore frees
only what stands before the struct it is for, and every pointer that a walk has saved leads behind
it: this relates the frames of the stack to the list (`StackOK`) and the list to `srvptr` (`PointersOK`), and with
the list itself (`ListExact`) and the users of each server makes the inductive invariant. When the walks of a server's exit are over nobody is left
on it (`NoneBehind`), which is proved from the *least* position at which somebody might be. The
refinement follows: what is freed has nothing below it.

**ChannelMembers_proofs.** `TypeOK`, `MembersAgree`, `CountersExact`, `ChannelLives`, `InvitesAgree`, `InviteUsedUp`,
`NoDangling`, and `SJoinHolds` for a server without insecure users, where the run `members_insecure`
shows that it does not hold with them. The invariant is made of the part about
members (both ends and counters), the part about links (invitations and throttle entries), the
phases of `m_sjoin` and of an exit, and the rule that everything points to channels and users that
are there, except that a user in the middle of an exit may already have lost some. `InvitesAgree`
needs lemmas about removal from and addition to a list without repeats, for `add_invite`'s two
evictions.

**LinkIO_proofs.** All safety properties of `linkio_loop`, `TimeoutIsSilence` among them. The invariant is a
predicate of a single connection, `Sound(l, e)`, where `e` (`Since`) bounds the time since `check_pings`
looked at it: it starts at 0 after `CheckPing`, grows by `Tick`, and is at most `Gap + MaxDelay - 1`. Each
function of send.c, `read_packet` and `check_pings` has a lemma that it preserves `Sound`. The bounds
follow: a silent peer is gone after `2 * (Ping + Gap + MaxDelay - 2)` seconds, an unregistered
connection after `2 * (MaxUnknown + Gap + MaxDelay)`, a dead one in less than `Gap + MaxDelay`.
`SelectServes` relates the connections to the pass: from the start of a pass (`Served`), one that has a
line it may execute is still in `todo` or is the one whose lines run.

**Connecting_proofs.** `RegistrationSound` of Registration. What a SASL session names is a slot and a cookie, so the invariant says
that whatever is under way names a connection that has asked, with its cookie (`Owned`), and that an
answer of success comes right behind the login it belongs to, or the login was read (`Paired`).

`WaitsSound` of ClientDns: the invariant has the cache (list and buckets have the same order, and an
address once), who waits for which request, and which ident sockets are open.

**Lists_proofs.** Linked lists that lose members are sequences, and what is left of one is the recursive
function `Keep` of Lists. What is shown of it by induction is shown with the *set* of the lists that have the
property (`ListInduction`), and for naturals with the least one that has not (`LeastOfNaturals`), since the
library's induction theorems are out of reach. The other modules cite the results: which members
stay (`KeepMembers`), and that they stand in the places they stood in, each once (`KeepPlaces`).

**Pointers_proofs.** Four lists of records that point to something which may go first. `PendingIsLive`: a record
of `pendingnet` is of a connection that is no server yet, and a server has one client of each name
(`PendingLive` of `LinksSound`). The invariant (`Local`) speaks of one server alone; a message is anything, so that
nothing needs to be said of what is under way. Each function that handlers are made of (`Exit`, `Squit`, `Synch`,
`VerifyLink`, ...) has a lemma that it preserves `Local`, whatever other connection it closes.
`OnlyFloodModesEnd`: the safety parts of `FloodModesSound`. A timer may be without its flag in `timer_flags` after a
new +f, and the same mode may then get a second timer; `FInv` says that this is the only way (`stray`), whence
`modef_event` never writes to a channel that is gone, takes back no mode that no flood set, and loses none that one did
(`TInv`).
`HistoryIsRight`: `ChaseIsRight` of Whowas. The first entry that `get_history` comes to must be the one of who left the nick
last, while the ring overwrites its oldest entry. The invariant says which slot stands at place j of the chain of all nicks, the one
that was filled j entries ago (`Ring`), so that the slot that is used again is the last of the chain; that entries get older along it (`Ages`), so that
the time limit cuts off its end; that a user's chain has exactly the entries about him (`Chains`), without which `off_history` would leave
one behind; and at which place the entry is of who left a nick last (`LastFor`).
`LinksAreBack`: `LinkedBack` of DccAllow. The invariant has every link once, with one of the opposite kind at the other
user (`Backs`), between users that are there (`Heres`). `remove_dcc_references` walks the list of who leaves while it changes
those of the others: after n rounds exactly the links back to the first n are gone, which is proved from the least
round after which it would not be so. Hence both messages of the code that begin with "[BUG]" are never sent.

**Admin_proofs.** `BlocksHold` of LinkConf. The counts are right for blocks in memory and not; a block that is counted by anybody is in memory. Each
small step changes one connection, look-up or block, and the sets that are counted by one member; REHASH
changes many links of a class at once: the new `xrefcount` is the old one minus the links that are wiped plus the new
ones, of disjoint sets.

`IncludesSound` of Includes. The number of transfers and of entries that wait are equal because both are
finite and have one for each address (`SameSize`). That a fetched version is used although the second download may
fail needs more than one state: a download asks for what is newer than the file of its entry (`AsksForNewer`), so one
that finds nothing newer leaves a file that is as new as `got` says, and what was fetched is in cache/ until
the reading ends (`FetchedIsKept`). Urls and local files are assumed to be different names.

`BansBite` of Tkl, for networks without a CIDR mask (`NoCidr`): a shun by CIDR is not lifted when it ends, see
below, so that the property does not hold with one. The invariant is the property itself with the types of the
messages: an addition sets `do_bancheck`, a merge keeps an entry that was there, and what is taken off unshuns whom no
other shun silences. Its lemmas say what happens to the list of one server (`ListChanges`) whatever the message
was, so that links, bursts and splits need nothing but `OnTheWire`, which says that what is sent is made of valid
entries.

**Linked_proofs.** The refinement `BytesSpec` of DBuf, that no block leaks or is shared, and that `head`, `tail`, `offset`
and `length` agree with the chain. The invariant gives every queue a chain, a sequence of blocks without
repeats that its pointers follow, disjoint from the others' and from the freelist, all of them together the blocks
that were ever allocated. A byte of a queue has a position `p`, in block `p \div DBUFSIZ` of the chain at
`p % DBUFSIZ`. One lemma per round of a loop (`PutRound`, `DeleteRound`) says what it does to the chain and to
the bytes by position, one per loop that its rounds exist and where they end, and `Frame` that
blocks of other queues are left alone.

`WatchersKnow` of WatchList. The invariant has both ends of an entry (`OnBoth`), each once (`OnHeaders`, `OnUsers`), that a
nick has one user (`Nicks`), without which a nick change would leave watchers of the old nick with a wrong
answer, and what each watcher knows (`Told`). `OneEntry` is the step that changes one entry at both ends, `OneDropped` that
of a user whose entries all go, `SameLists` that of news alone.

**What is only model-checked.** *Liveness* (`ExitEnds`, `QuitEnds`, `BlockedEnds`, `Settles`, `MergesEnd`,
`CircleSettles`, part of `FloodModesSound`) is beyond the prover, and so is ENABLED. *Agreement at rest* of several servers (`NicksSound`, `MergesSound`,
`LinkedAtRest` of `LinksSound`, `AgreedAtRest`): the inductive invariant would have to say for every mix of messages under way
what the far side will make of them, in the order of the queues; their messages are folded over
sequences. *Folds over strings and lists* (`OpersCounted`, `LinesSound`, `ModulesSound`, `RehashIsRestart`): what a fold computes for all inputs needs an
induction that takes an operator, which the prover cannot apply. *Case
properties* (`HeardRight`, `ShownRight`, `OrdersSound`, `AcceptedIsUsable`): tables of cases, which TLC goes
through completely; there is hardly a parameter that a proof could generalise.

Some properties, `BothAccepted`, `DoneIsDetected`, `OneTimer`, `WipedOut`, `TablesAgree`, `TreeAfterSquit`,
`BanSetsAgree`, `AwayTold` and `GetMsgFills`, are stated in the modules and are in no run: they are what a
comment of the code says, and do not hold (next section).

## Where the code disagrees with what it says

Three have a run that TLC finds violated; PROJECT.json, "findings", quotes both sides.

- An SJOIN that sets +z, adds nobody and kicks everybody reads its channel after it was freed
  (`src/src/modules/m_sjoin.c:590`; run `members_insecure`).
- With `USE_POLL`, a client whose recvQ is at 4088 bytes is not visited when its fake lag is over
  (`src/src/s_bsd.c:1777`; run `linkio_poll`).
- A remote include that was read from cache/ loses that copy with the next successful REHASH, or at
  once when the configuration is refused, so that a later REHASH fails
  (`src/src/s_conf.c:10271`; run `includes_down`).

These do not hold either. Those with a property in brackets were seen violated by TLC; the others
are taken around by the models, or exempt by name in the property that they would break.

*Clients, operators, buffers, the loop.*
- CLOSE sets the number of unknown connections to 0 while SSL handshakes, which it skips, are
  counted in it (`src/src/modules/m_close.c:114`; `UnknownExact` with SSL).
- An operator who is hidden (+H) and steps down with -o is counted off although hidden operators
  are not in the count (`src/src/modules/m_mode.c:2466`). SVSMODE +O takes +o from an operator without
  counting (`src/src/modules/m_svsmode.c:465`), its +o counts a hidden user, its +H and -H count whoever is no
  +O, operator or not; SVSNOOP counts hidden operators off (`src/src/modules/m_svsnoop.c:106`), and a quarantined
  user who sets +io is killed in the middle of the string, with +i that was not counted yet
  (`src/src/modules/m_mode.c:2239`). All these steps are in the model: `OpersExact` and `InvisibleExact` name them and claim
  nothing after one, and they are the only ones. `oper_fdlist` is right after them too.
- `dbuf_getmsg` cuts lines that fit (`src/src/dbuf.c:339`; `GetMsgFills`), `dbuf_malloc_error` returns
  0 where callers look for a negative result (`src/src/dbuf.c:153`), `close_connection` leaves `MyConnect`
  true, by which later tests go (`src/src/s_bsd.c:1054`).

*Registration and look-ups.*
- CAP END waits for neither USER nor the cookie (`src/src/modules/m_cap.c:283`; `BothAccepted`); CAP
  CLEAR zeroes `proto`; a SASL success after an abort still logs in; `LOCAL_QUIT` never aborts a session.
- `s_bsd.c:1486-1492` detects that "DNS has been done" from a name that was found and not from a failure
  (`DoneIsDetected`); `FLAGS_CHKACCESS` is set and never read.

*Channels.*
- A refused `+L` and a mode that is locked eat no parameter, a second `k` neither acts nor eats its
  own, and with `RESTRICT_CHANNELMODES` the parameters of the table's last entry are added: each
  shifts the parameters of the letters behind (`src/src/modules/m_mode.c`). "3:5" for +f in
  modes-on-join silently gives nothing, `-f` and `-L` do not test the bound of `pvar`.
- A bounced -b takes a ban away that both sides have (`src/src/modules/m_mode.c:1229`; `BanSetsAgree`); a bounced -k
  removes any key. What an operator sets or takes away, or a KICK, while it crosses a burst, a join, another KICK or another such
  change, is carried out in one order here and in the other there (`clash`: the modes of the channel may differ, its time
  and its members agree); a KICK that crosses the PART and JOIN of its victim, or the departure of all while a burst or a MODE of theirs is
  still under way, makes servers differ about who is there (`forgot`: nothing is claimed).
- `chanfloodtimer_add` does not overwrite a previous timer (`src/src/channel.c:1688`; `OneTimer`); `modef_event`
  leaves counters; the expiry of +i leaves the +K that came with it.
- AWAY does not tell all who asked for it (`src/src/modules/m_away.c:118`; `AwayTold`).

*Links, nicks, bans, commands.*
- SQUIT of a server elsewhere, crossed by its return, leaves the asker with a link that is down
  (`src/src/s_misc.c:720`; `TreeAfterSquit`).
- The server that gives up its user in a collision trusts its peer to find the same collision, and the
  peer does not if its own user has left (`src/src/modules/m_nick.c:484`; `TablesAgree`); KILLs that
  chase a nick can hit late (`crossed`).
- A shun by CIDR is not lifted when it ends (`src/src/modules/m_tkl.c:1076`); '+' compares masks by
  case and '-' does not; a ban that is removed during a split comes back.
- SVSFLINE - removes a mask on the first server and is passed on without its sign, so that the next sets the
  mask instead (`src/src/modules/m_svsfline.c:109`), or, when the mask begins with `*`, removes them all; `FieldsAgree`
  excepts the mask until the next order.
- SVSNLINE and SVSFLINE of a burst are not passed on; CHGNAME with a banned realname exits the source
  (`src/src/modules/m_chgname.c:161`); SVSSNO without a parameter forwards NULL
  (`src/src/modules/m_svssno.c:112`); LAG and TRACE are answered by every server on the way.
- SENDSNO reaches operators only, where its documentation says all with the snomask; a join with a rank on
  +u is heard twice by who joins (`src/src/modules/m_join.c:355`); a JOIN that arrives as an SJOIN is not passed
  on to old servers.
- `sendanyways` stays set when a hook refuses a text (`src/src/modules/m_message.c:465`), and the next message to
  the operators of a +mu channel reaches deaf ones. That an operator may speak on +mu is asked by his own server
  and not by the next. An alias does not look at +R and +T of a local user, and of a channel not at +S, +K, ~T,
  deaf members and +mu, which PRIVMSG does (`src/src/s_svs.c:272`). Each is a case of
  `Excepted`, with the users of whom `HeardRight` claims nothing then.

*What is shown* (each a case of `Leaks`, to which `ShownRight` does not apply).
- WHOIS, and WHO of a user, show that somebody is in an auditorium (+u), which NAMES and WHO of the channel
  hide (`src/src/modules/m_whois.c:211`, `src/src/modules/m_who.c:793`).
- WHOIS for WebTV shows the swhois of a hidden operator (`src/src/modules/webtv.c:389`), which WHOIS keeps
  (`src/src/modules/m_whois.c:319`), though `src/src/modules/m_whois.c:221` asks that the two be kept in step.
- TOPIC shows the topic of a +p channel, which LIST hides, to who is not on it; MODE shows the modes of any channel,
  and KNOCK tells of any invite-only channel that it is there.
- STATS E and k both list the except ban {} blocks, STATS C and x the link {} blocks, and
  `set::oper-only-stats` keeps each letter by itself: the one shows what was kept of the other.
- WHO's search for a common channel stops at the first auditorium (`src/src/modules/m_who.c:823`).

*REHASH.*
- A temporary link block stays in memory after its last user when that was OPER's class or a look-up
  (`src/src/modules/m_oper.c:273`, `src/src/res.c:407`; `WipedOut`).
- Some directives without a value are used, or the program dies of them: `me::name`, `me::info`, `me::numeric`,
  `vhost::swhois`, `ssl::renegotiate-timeout`/`-bytes`, `default-ipv6-clone-mask` (`Unchecked`: `AcceptedIsUsable` excepts files
  with such an entry, and claims of these directives that a bad value is refused). When the new files say
  nothing of it, the `class::recvq` of a class in use (`src/src/s_conf.c:4087`) and ISUPPORT's SILENCE stay from the
  configuration before (`KeptOver`; excepted in `RehashIsRestart` just then).
- What a REHASH has downloaded in the background is not used: `find_remote_include` looks for entries that are not loaded
  (`src/src/s_conf.c:10073`), so each include is downloaded again; a copy that is shorter than the
  last keeps its tail (`unreal_copyfile` without `O_TRUNC`).
- `unload_extcmode_commit` tests with `&&` and sends -X to channels that do not have X
  (`src/src/extcmodes.c:237`), and leaves `unloaded` set (`Worn`); `EfunctionDel` never clears
  (`src/src/modules.c:1448`); `CmodeAdd` stops at the first empty slot; `UmodeAdd` does not notice that its table is
  full (`src/src/umodes.c:222`), which the model excludes by `ModulesAssumption`.

## What is not modelled

- **ClientTable**: NICK with seven parameters or less, which leaves a remote struct that is not
  registered until USER comes; an outgoing link that registers as a user; hash tables and ids; the
  failure of `SSL_new` in `add_connection`.
- **OperCount**: other user modes, snomasks, vhosts. **DBuf**: the page of blocks at once (`VALLOC`).
- **ChannelMembers**: the answers of `can_join` and `can_kick` are free; the order of the member lists,
  +L forwarding. **ModeLines**: MLOCK, timestamps (in ChannelTS). **ChannelTS**: the limit, extended modes, MLOCK.
- **LinkIO**: outgoing connects and SSL handshakes, zip links, the ban checks in `check_pings`, LIST
  over several passes (in Visibility), lifesux, clock adjustments; the exit for
  `UNKNOWN_FLOOD_AMOUNT` is one of the ways a command may end, not forced.
- **NickNet**: nick bans and Q-lines, the nick flood limit. **ServerLink**: NETINFO, ZIP, deny blocks.
  **Tkl**: spamfilters, Q-lines, the masks themselves. **LinkConf**: listen blocks (their count is in
  ClientTable). **ClientDns**: the IPv6 retry.
- **ConfBlocks**: `set::scan`, cloak keys, directives of modules, and the text of a value beyond good, bad and missing.
  **Modules**: dependencies, delayed unloads, version flags, extended bans, overrides, ISUPPORT.
  **Includes**: remote MOTDs, failures to open a file, `curl_easy_init` failing.
- **Visibility**: WHOLIMIT, ULINE hiding, the other filters of WHO and LIST, the lines of a STATS list. **Delivery**: the target limit,
  spamfilters, DCC rules. **Orders**: NETINFO, RPING, DCCDENY, ADDLINE, ADDMOTD. **ChanFlood**: the limits
  on lines and repeated text of one user.
- The **components without a module** are listed in PROJECT.json with the reason. Text processing
  (splitting a configuration file, formatting, matching) is not what a model checker is for;
  libraries (OpenSSL, zlib, c-ares, libcurl) and services are external.

## Plan

Done: all modules above, and the theorems of eight of them. What is left, in order of importance:

| What | Where | Remark |
|---|---|---|
| `NickOnce` of `NicksSound` for any servers | NickNet | that no table has a nick twice is local to one server, as `PendingLive`; its parts about ids and servers need an invariant over messages |
| join forwarding, throttling | new | the recursion of `do_join` over +L ends; buckets expire |
