------------------------------ MODULE Modules ------------------------------
(***************************************************************************)
(* Loadable modules over REHASH (init_conf, modules.c, umodes.c,           *)
(* extcmodes.c, api-command.c, events.c).  A REHASH loads all modules      *)
(* again beside the old ones and tests them; only if the whole             *)
(* configuration passes the functions and callbacks of the server are      *)
(* switched over to the new modules, the old ones unloaded, and the new    *)
(* ones initialised.  User and channel modes keep their place in the table *)
(* if the new module has the same letter, so that who has them keeps them. *)
(*                                                                         *)
(* dlopen is external: it, Mod_Test, Mod_Init or Mod_Load of a module may  *)
(* fail.  An object (efunction, callback, command, hook, event, mode) is   *)
(* on a table of the server and on the list of its module; here it is on   *)
(* the table, with its owner.  Dependencies between modules and MOD_DELAY, *)
(* which no module of the tree uses, are left out, and so are modules with *)
(* version flags, hook types, extended bans, overrides and ISUPPORT        *)
(* tokens, which are kept in the same way.                                 *)
(***************************************************************************)
EXTENDS Naturals, Sequences, FiniteSets, SequencesExt

CONSTANTS Base,         \* sequences of modules with functions the server needs
          Optional,     \* a sequence of modules it can do without
          Slots,        \* UMODETABLESZ, EXTCMODETABLESZ: more than there are modes
          MaxFaults     \* modules that fail to load, over a behaviour

(* Of the modules of the tree, and some that could be added to them.       *)
Efunctions == {"m_tkl", "commands"}                   \* both have tkl_add_line, and TKL
Cloaks == {"cloak", "mycloak"}
Permanent == {"m_privdeaf"}                           \* MOD_OPT_PERM
umode(n) == CASE n = "nocolorumode" -> "c" [] n = "m_privdeaf" -> "D" [] n = "myumode" -> "y" [] OTHER -> ""
cmode(n) == CASE n = "m_issecure" -> "Z" [] n = "mycmode" -> "Y" [] OTHER -> ""
Hooked == {"nocolorumode", "m_privdeaf", "m_issecure"}
Needed == Efunctions \cup Cloaks
Nobody == <<"", 0>>

(* There is a place for every letter, since UmodeAdd does not look whether *)
(* there is one left.                                                      *)
ModulesAssumption ==
  LET all == ToSet(Optional) \cup UNION {ToSet(b) : b \in Base} IN
  /\ MaxFaults \in Nat /\ Slots \in Nat
  /\ Slots > Cardinality({umode(n) : n \in all} \ {""})
  /\ Slots > Cardinality({cmode(n) : n \in all} \ {""})

VARIABLES
  srv,        \* the modules and the tables of the server: see Empty
  phase,      \* where init_conf is
  conf,       \* the loadmodule lines of a configuration that is being loaded
  fault,      \* what will fail in it: a module and when, or <<"", "">>
  faults,     \* faults so far
  was,        \* srv before this REHASH
  meant,      \* the letters of the user modes that a user has set and not lost
  cmeant      \* those of the channel modes of a channel
modules == <<srv, phase, conf, fault, faults, was, meant, cmeant>>

NoSlot == [flag |-> "", unloaded |-> FALSE, owner |-> Nobody]
Empty == [Modules |-> <<>>, Efunctions |-> <<>>, tkl_add_line |-> Nobody,
          Callbacks |-> <<>>, RCallbacks |-> Nobody, command |-> Nobody,
          Hooks |-> {}, events |-> {},
          Usermode_Table |-> [i \in 1..Slots |-> NoSlot], umodes |-> {},
          Channelmode_Table |-> [i \in 1..Slots |-> NoSlot], extmode |-> {}]

(***************************************************************************)
(* Modules and their objects.  A module is known by its name and whether   *)
(* it is an old one, 0, or one of the REHASH that is going on, 1.          *)
(***************************************************************************)
name(id) == id[1]
Ids(s) == {m.id : m \in ToSet(s.Modules)}
PERM(m) == name(m.id) \in Permanent /\ m.flag # "testing"
Module_Find(s, n) == \E m \in ToSet(s.Modules) : name(m.id) = n /\ (PERM(m) \/ m.flag = "testing")
Aged(s) ==
  LET Old(id) == <<name(id), 0>>
      All(list) == [i \in DOMAIN list |-> [list[i] EXCEPT !.owner = Old(@)]]
  IN [s EXCEPT !.Modules = [i \in DOMAIN @ |-> [@[i] EXCEPT !.id = Old(@)]],
               !.Efunctions = All(@), !.Callbacks = All(@), !.Usermode_Table = All(@), !.Channelmode_Table = All(@),
               !.tkl_add_line = Old(@), !.RCallbacks = Old(@), !.command = Old(@),
               !.Hooks = {Old(id) : id \in @}, !.events = {Old(id) : id \in @}]

(* In a free place, or that of the same letter if it is about to be freed; *)
(* a letter in use is refused.  That the table is full is never noticed    *)
(* (umodes.c:222 compares with UMODETABLESZ the -1 that save begins with): *)
(* what comes of it is not modelled, and ModulesAssumption excludes it.    *)
UmodeAdd_FirstFree(s, id, ch) ==
  LET can == {i \in 1..Slots : s.Usermode_Table[i].flag = ""}
  IN IF can = {} THEN s
     ELSE [s EXCEPT !.Usermode_Table[CHOOSE i \in can : \A j \in can : i <= j] =
                      [flag |-> ch, unloaded |-> FALSE, owner |-> id]]
UmodeAdd(s, id, ch) ==
  LET table == s.Usermode_Table
      same == {i \in 1..Slots : table[i].flag = ch}
      can == IF same # {} THEN {i \in same : table[i].unloaded} ELSE {i \in 1..Slots : table[i].flag = ""}
  IN IF same # {} /\ can = {} THEN s
     ELSE [s EXCEPT !.Usermode_Table[CHOOSE i \in can : \A j \in can : i <= j] =
                      [flag |-> ch, unloaded |-> FALSE, owner |-> id]]
(* The search ends at the first free place, which stays marked as it is.   *)
CmodeAdd(s, id, ch) ==
  LET table == s.Channelmode_Table
      stop == {i \in 1..Slots : table[i].flag \in {"", ch}}
      at == CHOOSE i \in stop : \A j \in stop : i <= j
  IN IF stop = {} \/ (table[at].flag = ch /\ ~table[at].unloaded) THEN s
     ELSE [s EXCEPT !.Channelmode_Table[at] =
             [flag |-> ch, unloaded |-> table[at].unloaded /\ table[at].flag = "", owner |-> id]]
CommandAdd(s, id) == IF s.command = Nobody THEN [s EXCEPT !.command = id] ELSE s
EfunctionAdd(s, id) == [s EXCEPT !.Efunctions = <<[owner |-> id, willberemoved |-> FALSE]>> \o @]
CallbackAdd(s, id) == [s EXCEPT !.Callbacks = <<[owner |-> id, willberemoved |-> FALSE]>> \o @]

Mod_Test(s, id) ==
  CASE name(id) \in Efunctions -> EfunctionAdd(s, id)
    [] name(id) \in Cloaks -> CallbackAdd(s, id)
    [] OTHER -> s
Mod_Init(s, id) ==
  LET modes == IF umode(name(id)) # "" THEN UmodeAdd(s, id, umode(name(id)))
               ELSE IF cmode(name(id)) # "" THEN CmodeAdd(s, id, cmode(name(id)))
               ELSE s
  IN IF name(id) \in Efunctions THEN CommandAdd(modes, id)
     ELSE IF name(id) \in Hooked THEN [modes EXCEPT !.Hooks = @ \cup {id}] ELSE modes
Mod_Load(s, id) == IF name(id) \in Efunctions THEN [s EXCEPT !.events = @ \cup {id}] ELSE s

(* EfunctionDel leaves the pointer; CallbackDel does not.  A mode is only  *)
(* marked by UmodeDel and CmodeDel, since loop.ircd_rehashing is set.      *)
Without(list, id) == SelectSeq(list, LAMBDA o : o.owner # id)
Marked(table, id) ==
  [i \in 1..Slots |-> IF table[i].owner = id THEN [table[i] EXCEPT !.unloaded = TRUE, !.owner = Nobody] ELSE table[i]]
EfunctionDel(s, id) == [s EXCEPT !.Efunctions = Without(@, id)]
CallbackDel(s, id) == [s EXCEPT !.Callbacks = Without(@, id), !.RCallbacks = IF @ = id THEN Nobody ELSE @]
CommandDel(s, id) == [s EXCEPT !.command = IF @ = id THEN Nobody ELSE @]
HookDel(s, id) == [s EXCEPT !.Hooks = @ \ {id}]
EventDel(s, id) == [s EXCEPT !.events = @ \ {id}]
UmodeDel(s, id) == [s EXCEPT !.Usermode_Table = Marked(@, id)]
CmodeDel(s, id) == [s EXCEPT !.Channelmode_Table = Marked(@, id)]
Objects(s, id) ==
  CmodeDel(UmodeDel(EventDel(HookDel(CommandDel(CallbackDel(EfunctionDel(s, id), id), id), id), id), id), id)
Module_free(s, id) == [Objects(s, id) EXCEPT !.Modules = SelectSeq(@, LAMBDA m : m.id # id)]
SetFlag(s, id, f) == [s EXCEPT !.Modules = [i \in DOMAIN @ |-> IF @[i].id = id THEN [@[i] EXCEPT !.flag = f] ELSE @[i]]]
(* All modules that are like this, from the head of the list.              *)
Walk(s, Do(_, _), Like(_)) ==
  FoldLeft(LAMBDA t, m : IF Like(m) THEN Do(t, m.id) ELSE t, s, s.Modules)

(***************************************************************************)
(* The parts of init_conf.                                                 *)
(***************************************************************************)
(* A module that is there already is passed over without a word.           *)
Module_Create(s, n) ==
  LET id == <<n, 1>>
  IN IF Module_Find(s, n) THEN s
     ELSE Mod_Test([s EXCEPT !.Modules = <<[id |-> id, flag |-> "testing"]>> \o @], id)
load_conf(s, lines, bad) ==
  FoldLeft(LAMBDA r, n : IF ~r.ok \/ (bad = <<n, "test">> /\ ~Module_Find(r.s, n))
                         THEN [r EXCEPT !.ok = FALSE] ELSE [r EXCEPT !.s = Module_Create(r.s, n)],
           [s |-> s, ok |-> TRUE], lines)
Unload_all_testing_modules(s) == Walk(s, Module_free, LAMBDA m : m.flag = "testing")
num(list) == Cardinality({i \in DOMAIN list : ~list[i].willberemoved})
callbacks_check(s) == num(s.Callbacks) = 1
efunctions_check(s) == num(s.Efunctions) = 1
(* The first that is to stay, which will be removed at the next REHASH.    *)
First(list) == SelectInSeq(list, LAMBDA o : ~o.willberemoved)
Mark(list) == [list EXCEPT ![First(list)].willberemoved = name(list[First(list)].owner) \notin Permanent]
callbacks_switchover(s) == [s EXCEPT !.RCallbacks = s.Callbacks[First(s.Callbacks)].owner, !.Callbacks = Mark(@)]
efunctions_switchover(s) == [s EXCEPT !.tkl_add_line = s.Efunctions[First(s.Efunctions)].owner, !.Efunctions = Mark(@)]
Unload_all_loaded_modules(s) == Walk(s, Module_free, LAMBDA m : m.flag = "loaded" /\ ~PERM(m))
Init_all_testing_modules(s, bad) ==
  LET One(t, id) == CASE bad = <<name(id), "early">> -> Module_free(t, id)
                      [] bad = <<name(id), "late">> -> Module_free(Mod_Init(t, id), id)
                      [] OTHER -> SetFlag(Mod_Init(t, id), id, "init")
  IN Walk(s, One, LAMBDA m : m.flag = "testing")
module_loadall(s, bad) ==
  LET One(t, id) == IF bad = <<name(id), "load">> THEN Module_free(t, id) ELSE SetFlag(Mod_Load(t, id), id, "loaded")
  IN Walk(s, One, LAMBDA m : m.flag # "loaded")
unload_all_unused_umodes(s) ==
  LET gone == {i \in 1..Slots : s.Usermode_Table[i].unloaded}
  IN [s EXCEPT !.umodes = @ \ gone,
               !.Usermode_Table = [i \in 1..Slots |-> IF i \in gone THEN NoSlot ELSE @[i]]]
(* unload_extcmode_commit leaves the mark.                                 *)
unload_all_unused_extcmodes(s) ==
  LET gone == {i \in 1..Slots : s.Channelmode_Table[i].flag # "" /\ s.Channelmode_Table[i].unloaded}
  IN [s EXCEPT !.extmode = @ \ gone,
               !.Channelmode_Table = [i \in 1..Slots |-> IF i \in gone THEN [@[i] EXCEPT !.flag = ""] ELSE @[i]]]

(***************************************************************************)
(* The server.                                                             *)
(***************************************************************************)
Confs == {b \o SelectSeq(Optional, LAMBDA n : n \in o) : b \in Base, o \in SUBSET ToSet(Optional)}
Passes(c) == callbacks_check(load_conf(Empty, c, <<"", "">>).s) /\ efunctions_check(load_conf(Empty, c, <<"", "">>).s)
Booted(c) ==
  LET tested == load_conf(Empty, c, <<"", "">>).s
      switched == efunctions_switchover(callbacks_switchover(tested))
  IN Aged(module_loadall(Init_all_testing_modules(switched, <<"", "">>), <<"", "">>))

InitWith(c) ==
  /\ srv = Booted(c)
  /\ phase = "idle" /\ conf = <<>> /\ fault = <<"", "">> /\ faults = 0 /\ was = srv
  /\ meant = {} /\ cmeant = {}
Init == \E c \in {d \in Confs : Passes(d)} : InitWith(c)

(* The modules of the server do not fail once they are loaded, but that    *)
(* one that adds a mode fails when its letter is taken or no slot is free. *)
Faults(c) ==
  {<<"", "">>} \cup (ToSet(c) \X {"test"})
     \cup ((ToSet(c) \ Needed) \X {"early", "late", "load"})
REHASH ==
  /\ phase = "idle"
  /\ \E c \in Confs : \E f \in Faults(c) :
       LET r == load_conf(srv, c, f)
       IN /\ f # <<"", "">> => faults < MaxFaults
          /\ conf' = c /\ fault' = f /\ faults' = faults + (IF f = <<"", "">> THEN 0 ELSE 1)
          /\ IF r.ok THEN srv' = r.s /\ phase' = "loaded"
             ELSE srv' = Unload_all_testing_modules(r.s) /\ phase' = "failed"
  /\ was' = srv
  /\ UNCHANGED <<meant, cmeant>>
(* config_test may refuse the rest of the configuration.                   *)
Check ==
  /\ phase = "loaded"
  /\ \E config_test \in BOOLEAN :
       IF config_test /\ callbacks_check(srv) /\ efunctions_check(srv)
       THEN srv' = efunctions_switchover(callbacks_switchover(srv)) /\ phase' = "switched"
       ELSE srv' = Unload_all_testing_modules(srv) /\ phase' = "failed"
  /\ UNCHANGED <<conf, fault, faults, was, meant, cmeant>>
Unload ==
  /\ phase = "switched"
  /\ srv' = Unload_all_loaded_modules(srv) /\ phase' = "unloaded"
  /\ UNCHANGED <<conf, fault, faults, was, meant, cmeant>>
InitAll ==
  /\ phase = "unloaded"
  /\ srv' = Init_all_testing_modules(srv, fault) /\ phase' = "inited"
  /\ UNCHANGED <<conf, fault, faults, was, meant, cmeant>>
LoadAll ==
  /\ phase = "inited"
  /\ srv' = module_loadall(srv, fault) /\ phase' = "ending"
  /\ UNCHANGED <<conf, fault, faults, was, meant, cmeant>>
Loaded(s) == {m.id : m \in {x \in ToSet(s.Modules) : x.flag = "loaded"}}
Names(s) == {name(id) : id \in Loaded(s)}
rehash_internal ==
  /\ phase \in {"ending", "failed"}
  /\ srv' = Aged(unload_all_unused_extcmodes(unload_all_unused_umodes(srv)))
  /\ meant' = meant \cap {umode(n) : n \in Names(srv)}
  /\ cmeant' = cmeant \cap {cmode(n) : n \in Names(srv)}
  /\ phase' = "idle" /\ conf' = <<>> /\ fault' = <<"", "">> /\ was' = srv'
  /\ UNCHANGED faults

MODE ==
  /\ phase = "idle"
  /\ \E i \in 1..Slots :
       /\ srv.Usermode_Table[i].flag # ""
       /\ srv' = [srv EXCEPT !.umodes = SymDiff(@, {i})]
       /\ meant' = SymDiff(meant, {srv.Usermode_Table[i].flag})
  /\ was' = srv'
  /\ UNCHANGED <<phase, conf, fault, faults, cmeant>>
ChannelMODE ==
  /\ phase = "idle"
  /\ \E i \in 1..Slots :
       /\ srv.Channelmode_Table[i].flag # ""
       /\ srv' = [srv EXCEPT !.extmode = SymDiff(@, {i})]
       /\ cmeant' = SymDiff(cmeant, {srv.Channelmode_Table[i].flag})
  /\ was' = srv'
  /\ UNCHANGED <<phase, conf, fault, faults, meant>>

Next == REHASH \/ Check \/ Unload \/ InitAll \/ LoadAll \/ rehash_internal \/ MODE \/ ChannelMODE
Spec == Init /\ [][Next]_modules

(***************************************************************************)
(* Properties.                                                             *)
(***************************************************************************)
Owners(s) ==
  {o.owner : o \in ToSet(s.Efunctions)} \cup {o.owner : o \in ToSet(s.Callbacks)}
    \cup {s.command, s.tkl_add_line, s.RCallbacks} \cup s.Hooks \cup s.events
    \cup {s.Usermode_Table[i].owner : i \in 1..Slots}
Letters(s, table, bits) == {table[i].flag : i \in bits} \ {""}
(* A place of the channel modes has been given up once (unload_extcmode_commit). *)
Worn == \E i \in 1..Slots : srv.Channelmode_Table[i].flag = "" /\ srv.Channelmode_Table[i].unloaded
Served ==
  /\ srv.tkl_add_line \in Loaded(srv) /\ srv.RCallbacks \in Loaded(srv) /\ srv.command = srv.tkl_add_line
  /\ \A id, jd \in Loaded(srv) : name(id) = name(jd) => id = jd
  /\ {m.flag : m \in ToSet(srv.Modules)} = {"loaded"}
  /\ \A n \in {m \in Names(srv) : umode(m) # ""} :
       Cardinality({i \in 1..Slots : srv.Usermode_Table[i].flag = umode(n)}) = 1
  /\ Letters(srv, srv.Usermode_Table, 1..Slots) \subseteq {umode(n) : n \in Names(srv)}
  /\ Letters(srv, srv.Usermode_Table, srv.umodes) = meant
  /\ Cardinality(srv.umodes) = Cardinality(meant)
  /\ ~Worn => /\ Letters(srv, srv.Channelmode_Table, 1..Slots) = {cmode(n) : n \in Names(srv)} \ {""}
              /\ Letters(srv, srv.Channelmode_Table, srv.extmode) = cmeant
  /\ \A i \in srv.extmode : srv.Channelmode_Table[i].flag # ""

(* Whatever fails in a REHASH: nothing the server may call belongs to a    *)
(* module that is gone, a configuration that is refused changes nothing,   *)
(* and after one that is accepted every function has one module, the new   *)
(* one, all modes are those of the loaded modules, and users and channels  *)
(* that had one of them have it still, and no other (init_conf, modules.c).*)
ModulesSound ==
  /\ Owners(srv) \ {Nobody} \subseteq Ids(srv)
  /\ phase = "failed" => srv = was
  /\ phase = "idle" => Served
  /\ phase = "ending" /\ fault = <<"", "">> => ToSet(conf) \subseteq Names(srv)
=============================================================================
