----------------------------- MODULE ConfBlocks -----------------------------
(***************************************************************************)
(* The blocks of the configuration file (s_conf.c): each has a function    *)
(* _test_<block>, called for every block of the new files before anything  *)
(* changes, and a function _conf_<block>, which reads the same entries     *)
(* later without looking at them again: it relies on what the test refused.*)
(*                                                                         *)
(* A block is a table of directives.  Its test is the sequence of steps an *)
(* entry goes through:                                                     *)
(*   "must"   a block without the directive is refused, at the end         *)
(*   "blank"  an entry without value is refused, and passed over           *)
(*   "told"   the same, but it is reported without being counted           *)
(*   "error"  an entry without value is refused, and goes on               *)
(*   "open"   a file is opened: no value or a bad one is warned about      *)
(*   "dup"    a second entry is warned about, and passed over              *)
(*   "again"  a second entry is warned about, and goes on                  *)
(*   "once"   a second entry is passed over in silence                     *)
(*   "has"    the directive is there                                       *)
(*   "check"  the value is read: a bad one is refused                      *)
(*   "inside" the entries of a section are read, and bad ones refused      *)
(* and its use, by _conf_<block>:                                          *)
(*   "copy"   ircstrdup: without a value the field becomes NULL            *)
(*   "read"   strdup, atol, strcmp...: the program dies without a value    *)
(*   "find"   looked up: it dies of a value it does not know               *)
(*   "flag"   the value, if any, sets options                              *)
(* and "add" when an entry is added to those before it: otherwise the last *)
(* one is the one that stays.  Values are abstract; what one directive     *)
(* asks of another is part of being bad.                                   *)
(***************************************************************************)
EXTENDS Integers, Sequences, SequencesExt, TLC

CONSTANT MaxEntries   \* of one directive in a block

Each(names, what) == [d \in names |-> what]

Once == <<"blank", "dup">>
Checked == <<"blank", "dup", "check">>
Must(steps) == <<"must">> \o steps
Section == <<"dup", "inside">>
Read == {"read"}
Copy == {"copy"}
Flags == {"flag", "add"}

----------------------------------------------------------------------------
(* admin {}, me {}, files {}                                               *)
(* A second me {} is warned about and not tested, a second admin {} is not *)
(* tested; both are read.                                                  *)
test_admin == Each({"line"}, <<"blank">>)
conf_admin == Each({"line"}, {"copy", "add"})

test_me ==
  Each({"name", "info"}, Must(<<"told", "dup", "check">>))
  @@ Each({"numeric"}, Must(<<"told", "has", "check">>))
conf_me == Each({"name", "info"}, Copy) @@ Each({"numeric"}, Read)

test_files ==
  Each({"motd", "shortmotd", "rules", "botmotd", "opermotd", "svsmotd"}, <<"dup", "open">>)
  @@ Each({"pidfile", "tunefile"}, <<"dup", "blank", "check">>)
conf_files ==
  Each({"motd", "shortmotd", "rules", "botmotd", "opermotd", "svsmotd", "pidfile", "tunefile"}, Copy)

(* oper {}, class {}, drpass {}, ulines {}                                 *)
test_oper_identity ==
  Each({"oper name"}, Must(<<"has", "error", "check">>))
  @@ Each({"password"}, Must(<<"dup", "blank", "check">>))
  @@ Each({"class"}, Must(Once)) @@ Each({"swhois", "snomask"}, Once)
  @@ Each({"modes"}, <<"blank", "check", "dup">>)
test_oper_rights ==
  Each({"require-modes"}, Once) @@ Each({"maxlogins"}, Checked)
  @@ Each({"flags"}, Must(Checked)) @@ Each({"from::userhost"}, Must(<<"dup", "blank">>))
test_oper == test_oper_identity @@ test_oper_rights
conf_oper ==
  Each({"oper name", "password", "class", "modes", "require-modes", "maxlogins"}, Read)
  @@ Each({"flags", "from::userhost"}, {"read", "add"}) @@ Each({"swhois", "snomask"}, Copy)

test_class ==
  Each({"class name"}, Must(<<"has", "error", "check">>))
  @@ Each({"pingfreq", "maxclients", "sendq"}, Must(Checked))
  @@ Each({"connfreq", "recvq"}, Checked) @@ Each({"options"}, <<"inside">>)
conf_class ==
  Each({"class name", "pingfreq", "maxclients", "sendq", "connfreq", "recvq"}, Read)
  @@ Each({"options"}, Flags)

test_drpass == Each({"restart", "die"}, Checked)
conf_drpass == Each({"restart", "die"}, Read)

test_ulines == Each({"server"}, <<"blank">>)
conf_ulines == Each({"server"}, {"copy", "add"})

(* tld {}, listen {}, allow {}                                             *)
test_tld_must == Each({"mask"}, Must(Once)) @@ Each({"motd", "rules"}, Must(Checked))
test_tld_may ==
  Each({"channel"}, Once) @@ Each({"shortmotd", "opermotd", "botmotd"}, Checked)
  @@ Each({"options"}, Section)
test_tld == test_tld_must @@ test_tld_may
conf_tld ==
  Each({"mask", "motd", "rules", "channel", "shortmotd", "opermotd", "botmotd"}, Read)
  @@ Each({"options"}, Flags)

test_listen == Each({"ip:port"}, <<"blank", "check">>) @@ Each({"options"}, Section)
conf_listen == Each({"ip:port"}, Read) @@ Each({"options"}, Flags)

test_allow_whom ==
  Each({"ip", "hostname"}, Must(Once)) @@ Each({"maxperip"}, Checked)
  @@ Each({"ipv6-clone-mask"}, <<"blank", "check">>)
test_allow_how ==
  Each({"class"}, Must(Once)) @@ Each({"redirect-server", "redirect-port"}, Once)
  @@ Each({"password"}, Checked) @@ Each({"options"}, Section)
test_allow == test_allow_whom @@ test_allow_how
conf_allow ==
  Each({"ip", "hostname", "class", "redirect-server", "redirect-port", "maxperip", "password",
        "ipv6-clone-mask"}, Read)
  @@ Each({"options"}, Flags)

test_allow_channel == Each({"channel"}, Must(<<"blank", "has">>)) @@ Each({"class"}, Once)
conf_allow_channel == Each({"channel"}, {"copy", "add"}) @@ Each({"class"}, Copy)

test_allow_dcc == Each({"filename"}, Must(Once)) @@ Each({"soft"}, Once)
conf_allow_dcc == Each({"filename"}, Copy) @@ Each({"soft"}, Read)

(* except {}, vhost {}                                                     *)
test_except_ban == Each({"ban::mask", "throttle::mask"}, Must(Once))
test_except_tkl ==
  Each({"tkl::mask"}, Must(Once)) @@ Each({"tkl::type"}, Must(<<"dup", "blank", "check">>))
test_except == test_except_ban @@ test_except_tkl
conf_except ==
  Each({"ban::mask", "throttle::mask"}, {"read", "add"})
  @@ Each({"tkl::mask"}, Read) @@ Each({"tkl::type"}, {"find"})

test_vhost ==
  Each({"vhost"}, Must(<<"dup", "blank", "check">>)) @@ Each({"login"}, Must(<<"again", "blank">>))
  @@ Each({"password"}, Must(<<"again", "blank", "check">>))
  @@ Each({"from::userhost"}, Must(<<"dup", "blank">>)) @@ Each({"swhois"}, <<"dup">>)
conf_vhost ==
  Each({"vhost", "login", "password", "swhois"}, Read) @@ Each({"from::userhost"}, {"copy", "add"})

(* badword {}, spamfilter {}, help {}, log {}                              *)
test_badword ==
  Each({"badword type"}, <<"blank", "check">>) @@ Each({"word"}, Must(Checked))
  @@ Each({"replace"}, Once) @@ Each({"action"}, Checked)
conf_badword == Each({"badword type", "word", "action"}, Read) @@ Each({"replace"}, Copy)

test_spamfilter ==
  Each({"target"}, Must(<<"dup", "blank", "check">>)) @@ Each({"regex", "action"}, Must(Checked))
  @@ Each({"reason", "ban-time"}, Once)
conf_spamfilter ==
  Each({"target"}, Flags) @@ Each({"regex"}, {"find"}) @@ Each({"action", "ban-time"}, Read)
  @@ Each({"reason"}, Copy)

test_help == Each({"text"}, <<"must", "has", "blank">>)
conf_help == Each({"text"}, {"read", "add"})

test_log ==
  Each({"file"}, <<"blank">>) @@ Each({"flags"}, Must(<<"dup", "blank", "inside">>))
  @@ Each({"maxsize"}, <<"dup", "blank">>)
conf_log == Each({"file"}, Copy) @@ Each({"flags"}, Flags) @@ Each({"maxsize"}, Read)

(* link {}, cgiirc {}                                                      *)
test_link_address ==
  Each({"servername"}, <<"blank", "check">>) @@ Each({"options"}, Section)
  @@ Each({"username"}, Must(Once)) @@ Each({"hostname"}, Must(Checked)) @@ Each({"bind-ip"}, Checked)
test_link_terms ==
  Each({"port", "class"}, Must(Once))
  @@ Each({"password-receive", "password-connect"}, Must(Checked))
  @@ Each({"hub", "leaf", "leafdepth", "ciphers"}, Once) @@ Each({"compression-level"}, Checked)
test_link == test_link_address @@ test_link_terms
conf_link ==
  Each({"servername", "username", "hostname", "port", "password-receive", "password-connect",
        "class", "bind-ip", "hub", "leaf", "leafdepth", "ciphers", "compression-level"}, Read)
  @@ Each({"options"}, {"flag"})

test_cgiirc ==
  Each({"username"}, Once) @@ Each({"hostname"}, Must(Checked))
  @@ Each({"password"}, Checked) @@ Each({"type"}, Must(<<"blank", "again", "check">>))
conf_cgiirc ==
  Each({"username", "hostname", "password"}, Read) @@ Each({"type"}, {"find"})

(* ban {}, deny {}, official-channels {}, alias {}                         *)
test_ban ==
  Each({"ban type"}, <<"blank">>) @@ Each({"mask", "reason"}, Must(Once))
  @@ Each({"action"}, <<"blank", "again", "check">>)
conf_ban == Each({"ban type", "mask", "reason", "action"}, Read)

test_deny_dcc == Each({"dcc::filename", "dcc::reason"}, Must(Once)) @@ Each({"dcc::soft"}, Once)
test_deny_channel ==
  Each({"channel::channel", "channel::reason"}, Must(Once))
  @@ Each({"channel::redirect", "channel::warn", "channel::class"}, Once)
test_deny_link == Each({"link::mask"}, Must(Once)) @@ Each({"link::rule", "link::type"}, Must(Checked))
test_deny_version == Each({"version::mask", "version::version", "version::flags"}, Must(Once))
test_deny == test_deny_dcc @@ test_deny_channel @@ test_deny_link @@ test_deny_version
conf_deny_dcc == Each({"dcc::filename", "dcc::reason"}, Copy) @@ Each({"dcc::soft"}, Read)
conf_deny_channel ==
  Each({"channel::channel", "channel::reason", "channel::redirect", "channel::class"}, Copy)
  @@ Each({"channel::warn"}, Read)
conf_deny_link == Each({"link::mask"}, Copy) @@ Each({"link::rule", "link::type"}, Read)
conf_deny_version == Each({"version::mask", "version::version", "version::flags"}, Copy)
conf_deny == conf_deny_dcc @@ conf_deny_channel @@ conf_deny_link @@ conf_deny_version

test_offchans == Each({"channel"}, <<"must", "has", "inside">>) @@ Each({"topic"}, <<"blank", "check">>)
conf_offchans == Each({"channel"}, {"flag", "add"}) @@ Each({"topic"}, Read)

test_alias_format ==
  Each({"format"}, <<"blank", "check">>) @@ Each({"format::type"}, Must(Checked))
  @@ Each({"format::target", "format::parameters"}, Must(Once))
test_alias ==
  test_alias_format @@ Each({"alias name"}, <<"blank", "check">>)
  @@ Each({"target"}, Once) @@ Each({"type"}, Must(Checked)) @@ Each({"spamfilter"}, <<"blank">>)
conf_alias ==
  Each({"alias name", "format::type", "type", "spamfilter"}, Read) @@ Each({"format"}, {"read", "add"})
  @@ Each({"format::target", "format::parameters", "target"}, Copy)

(* set {}: in the order of the source; what must be there is asked for by  *)
(* config_post_test.  The times of default-bantime, ban-version-tkl-time   *)
(* and spamfilter::ban-time are compared so that no large one is refused.  *)
test_set_modes ==
  Each({"kline-address"}, Must(Checked))
  @@ Each({"gline-address", "modes-on-connect", "modes-on-join", "modes-on-oper", "level-on-join"}, Checked)
  @@ Each({"snomask-on-oper", "snomask-on-connect"}, Once)
test_set_limits ==
  Each({"static-quit", "static-part", "who-limit", "maxbans", "maxbanlength", "silence-limit",
        "auto-join", "oper-auto-join", "check-target-nick-bans", "pingpong-warning", "ping-cookie",
        "watch-away-notification", "uhnames", "channel-command-prefix"}, Once)
  @@ Each({"allow-userhost-change"}, Checked) @@ Each({"allowed-nickchars"}, <<"inside">>)
test_set_network ==
  Each({"anti-spam-quit-message-time", "maxdccallow", "sasl-server", "stats-server", "prefix-quit",
        "restrict-usermodes", "restrict-channelmodes"}, Once)
  @@ Each({"oper-only-stats", "restrict-extendedbans", "new-linking-protocol"}, <<"dup", "blank">>)
  @@ Each({"maxchannelsperuser", "network-name", "hiddenhost-prefix"}, Must(Checked))
  @@ Each({"default-server", "services-server", "help-channel"}, Must(Once))
test_set_dns ==
  Each({"dns::timeout", "dns::retries", "anti-flood::unknown-flood-bantime",
        "anti-flood::unknown-flood-amount"}, Once)
  @@ Each({"dns::nameserver", "dns::bind-ip", "throttle::period", "throttle::connections",
           "anti-flood::away-count", "anti-flood::away-period", "anti-flood::away-flood",
           "anti-flood::nick-flood"}, Checked)
test_set_options ==
  Each({"options"}, <<"inside">>)
  @@ Each({"hosts::global", "hosts::coadmin", "hosts::admin", "hosts::servicesadmin",
           "hosts::netadmin"}, Must(Checked))
  @@ Each({"hosts::local", "hosts::host-on-oper-up"}, Checked)
test_set_ident ==
  Each({"ident::connect-timeout", "ident::read-timeout"}, Checked)
  @@ Each({"timesync::enabled", "timesync::server"}, <<"blank">>)
  @@ Each({"timesync::timeout"}, <<"blank", "check">>)
test_set_spamfilter ==
  Each({"spamfilter::ban-time", "spamfilter::ban-reason", "spamfilter::virus-help-channel-deny",
        "spamfilter::except"}, Once)
  @@ Each({"spamfilter::virus-help-channel"}, Checked)
  @@ Each({"spamfilter::detect-slow-warn", "spamfilter::detect-slow-fatal",
           "spamfilter::stop-on-first-match"}, <<"blank">>)
test_set_ssl ==
  Each({"default-bantime", "ban-version-tkl-time"}, <<"dup", "blank">>)
  @@ Each({"modef-default-unsettime", "modef-max-unsettime"}, <<"dup", "blank", "check">>)
  @@ Each({"ssl::renegotiate-timeout", "ssl::renegotiate-bytes"}, <<"dup">>)
  @@ Each({"ssl::server-cipher-list", "ssl::certificate", "ssl::key", "ssl::trusted-ca-file"}, Once)
  @@ Each({"ssl::egd", "ssl::options"}, Section) @@ Each({"default-ipv6-clone-mask"}, <<"check">>)
test_set ==
  test_set_modes @@ test_set_limits @@ test_set_network @@ test_set_dns @@ test_set_options
  @@ test_set_ident @@ test_set_spamfilter @@ test_set_ssl

conf_set_modes ==
  Each({"kline-address", "gline-address", "snomask-on-oper", "snomask-on-connect", "static-quit",
        "static-part", "auto-join", "oper-auto-join", "channel-command-prefix"}, Copy)
  @@ Each({"modes-on-connect", "modes-on-oper", "modes-on-join", "level-on-join", "who-limit", "maxbans",
           "maxbanlength", "silence-limit", "check-target-nick-bans", "pingpong-warning", "ping-cookie",
           "watch-away-notification", "uhnames", "allow-userhost-change"}, Read)
  @@ Each({"allowed-nickchars"}, Flags)
conf_set_network ==
  Each({"restrict-usermodes", "restrict-channelmodes", "new-linking-protocol",
        "anti-spam-quit-message-time", "maxchannelsperuser", "maxdccallow", "network-name",
        "prefix-quit"}, Read)
  @@ Each({"restrict-extendedbans", "oper-only-stats", "default-server", "services-server",
           "sasl-server", "stats-server", "help-channel", "hiddenhost-prefix"}, Copy)
conf_set_dns ==
  Each({"dns::timeout", "dns::retries", "throttle::period", "throttle::connections",
        "anti-flood::unknown-flood-bantime", "anti-flood::unknown-flood-amount", "anti-flood::away-count",
        "anti-flood::away-period", "anti-flood::away-flood", "anti-flood::nick-flood"}, Read)
  @@ Each({"dns::nameserver", "dns::bind-ip"}, Copy)
conf_set_options ==
  Each({"options"}, Flags)
  @@ Each({"hosts::local", "hosts::global", "hosts::coadmin", "hosts::admin", "hosts::servicesadmin",
           "hosts::netadmin", "timesync::server"}, Copy)
  @@ Each({"hosts::host-on-oper-up", "ident::connect-timeout", "ident::read-timeout",
           "timesync::enabled", "timesync::timeout"}, Read)
conf_set_spamfilter ==
  Each({"spamfilter::ban-time", "spamfilter::virus-help-channel-deny", "spamfilter::detect-slow-warn",
        "spamfilter::detect-slow-fatal", "spamfilter::stop-on-first-match"}, Read)
  @@ Each({"spamfilter::ban-reason", "spamfilter::virus-help-channel"}, Copy)
  @@ Each({"spamfilter::except"}, {"copy", "add"})
conf_set_ssl ==
  Each({"default-bantime", "ban-version-tkl-time", "modef-default-unsettime", "modef-max-unsettime",
        "ssl::renegotiate-timeout", "ssl::renegotiate-bytes", "default-ipv6-clone-mask"}, Read)
  @@ Each({"ssl::server-cipher-list", "ssl::certificate", "ssl::key", "ssl::trusted-ca-file"}, Copy)
  @@ Each({"ssl::egd", "ssl::options"}, {"flag"})
conf_set ==
  conf_set_modes @@ conf_set_network @@ conf_set_dns @@ conf_set_options @@ conf_set_spamfilter
  @@ conf_set_ssl

(* What _conf_set tells IsupportSetValue of the limits, if the server is   *)
(* already up; isupport_init has taken the others from the configuration.  *)
test_isupport == Each({"SILENCE"}, Once) @@ Each({"MAXCHANNELS", "NETWORK"}, Must(Checked))
conf_isupport == Each({"SILENCE", "MAXCHANNELS", "NETWORK"}, Read)

----------------------------------------------------------------------------
(* _ConfigCommands: the functions of each block.                           *)
TestOf == [
  admin |-> test_admin, me |-> test_me, files |-> test_files, oper |-> test_oper,
  class |-> test_class, drpass |-> test_drpass, ulines |-> test_ulines, tld |-> test_tld,
  listen |-> test_listen, allow |-> test_allow, allow_channel |-> test_allow_channel,
  allow_dcc |-> test_allow_dcc, except |-> test_except, vhost |-> test_vhost,
  badword |-> test_badword, spamfilter |-> test_spamfilter, help |-> test_help, log |-> test_log,
  link |-> test_link, cgiirc |-> test_cgiirc, ban |-> test_ban, deny |-> test_deny,
  offchans |-> test_offchans, alias |-> test_alias, set |-> test_set,
  isupport |-> test_isupport]
ConfOf == [
  admin |-> conf_admin, me |-> conf_me, files |-> conf_files, oper |-> conf_oper,
  class |-> conf_class, drpass |-> conf_drpass, ulines |-> conf_ulines, tld |-> conf_tld,
  listen |-> conf_listen, allow |-> conf_allow, allow_channel |-> conf_allow_channel,
  allow_dcc |-> conf_allow_dcc, except |-> conf_except, vhost |-> conf_vhost,
  badword |-> conf_badword, spamfilter |-> conf_spamfilter, help |-> conf_help, log |-> conf_log,
  link |-> conf_link, cgiirc |-> conf_cgiirc, ban |-> conf_ban, deny |-> conf_deny,
  offchans |-> conf_offchans, alias |-> conf_alias, set |-> conf_set,
  isupport |-> conf_isupport]
ConfBlock == DOMAIN TestOf

VARIABLES block, directive,  \* the entries that are followed
          file,      \* the values of that directive in the files, "none" for an entry without one
          running,   \* "off", "up" or "dead"
          field,     \* what the server has of them, in order
          loaded,    \* the entries of the files it runs with
          warned,    \* what the field comes from, or it died of, was warned about
          kept       \* history: the block was there when it was last loaded
filesVars == <<block, directive, file, running, field, loaded, warned, kept>>

Steps == TestOf[block][directive]
Use == ConfOf[block][directive]
InTest(step) == step \in Range(Steps)

(* The values an entry may have: a section has no value of its own, and    *)
(* only a value that is looked at can be bad.                              *)
Value ==
  {"one", "two"} \cup (IF InTest("inside") THEN {} ELSE {"none"})
  \cup (IF InTest("check") \/ InTest("inside") \/ InTest("open") \/ "find" \in Use THEN {"bad"} ELSE {})

(* One step of the test of an entry.                                       *)
Passed == [over |-> FALSE, has |-> FALSE, errors |-> FALSE, warned |-> FALSE, died |-> FALSE]
TestStep(v, st, step) ==
  CASE st.over -> st
    [] step = "blank" /\ v = "none" -> [st EXCEPT !.errors = TRUE, !.over = TRUE]
    [] step = "error" /\ v = "none" -> [st EXCEPT !.errors = TRUE]
    [] step = "told" /\ v = "none" -> [st EXCEPT !.over = TRUE]
    [] step = "open" /\ v \in {"none", "bad"} -> [st EXCEPT !.warned = TRUE]
    [] step = "dup" /\ st.has -> [st EXCEPT !.warned = TRUE, !.over = TRUE]
    [] step = "again" /\ st.has -> [st EXCEPT !.warned = TRUE]
    [] step \in {"dup", "again", "has"} -> [st EXCEPT !.has = TRUE]
    [] step = "check" /\ v = "none" -> [st EXCEPT !.died = TRUE, !.over = TRUE]
    [] step \in {"check", "inside"} /\ v = "bad" -> [st EXCEPT !.errors = TRUE]
    [] OTHER -> st
TestEntry(st, v) == FoldLeft(LAMBDA s, step : TestStep(v, s, step), [st EXCEPT !.over = FALSE], Steps)
Test(entries) ==
  LET st == FoldLeft(TestEntry, Passed, entries)
  IN [st EXCEPT !.errors = @ \/ (InTest("must") /\ ~st.has)]

(* _conf_<block>, for all entries: what is in the field afterwards.        *)
Dies(entries) ==
  \E v \in Range(entries) : \/ v = "none" /\ "read" \in Use
                            \/ v \in {"none", "bad"} /\ "find" \in Use
Conf(old, entries) ==
  IF "add" \in Use THEN old \o entries
  ELSE IF entries = <<>> THEN old ELSE <<Last(entries)>>

FilesTypeOK ==
  /\ block \in ConfBlock /\ directive \in DOMAIN TestOf[block]
  /\ file \in Seq(Value) /\ Len(file) <= MaxEntries
  /\ running \in {"off", "up", "dead"} /\ field \in Seq(Value) /\ loaded \in Seq(Value)
  /\ warned \in BOOLEAN /\ kept \in BOOLEAN

FilesInitWith(b, d) ==
  /\ block = b /\ directive = d
  /\ file = <<>> /\ running = "off" /\ field = <<>> /\ loaded = <<>>
  /\ warned = FALSE /\ kept = FALSE
FilesInit == \E b \in ConfBlock : \E d \in DOMAIN TestOf[b] : FilesInitWith(b, d)

Edits ==
  /\ running # "dead"
  /\ \E n \in 0..MaxEntries : \E entries \in [1..n -> Value] : file' = entries
  /\ UNCHANGED <<block, directive, running, field, loaded, warned, kept>>

(* init_conf: the files are tested; when nothing was refused they are run, *)
(* over what is left of the old configuration.                             *)
Loads(old) ==
  LET t == Test(file) IN
  /\ \/ ~t.died /\ t.errors /\ UNCHANGED <<running, field, loaded, warned, kept>>
     \/ /\ t.died \/ (~t.errors /\ Dies(file))
        /\ running' = "dead" /\ warned' = t.warned /\ UNCHANGED <<field, loaded, kept>>
     \/ /\ ~t.died /\ ~t.errors /\ ~Dies(file)
        /\ running' = "up" /\ field' = Conf(old, file) /\ loaded' = file
        /\ kept' = (old # <<>>)
        /\ warned' = (t.warned \/ (warned /\ Conf(old, file) = old))
  /\ UNCHANGED <<block, directive, file>>

Starts == running = "off" /\ Loads(<<>>)

(* rehash_internal.  config_rehash frees the lists of the blocks; a link   *)
(* or class in use and every listener is only marked as temporary.  A      *)
(* link block is made anew; _conf_class takes the marked block again and   *)
(* resets only its options and connfreq; _conf_listen takes the marked     *)
(* listener and sets its options anew, and what stays marked goes with its *)
(* last client and counts as no block of the configuration.  Then set {}   *)
(* is filled from its defaults; me {} and what 005 tells stay.             *)
InUseStays == directive \notin {"options", "connfreq"}
FreedFirst(inUse) ==
  {"admin", "oper", "link", "ulines", "allow", "except", "ban", "tld"}
  \cup (IF inUse /\ InUseStays THEN {} ELSE {"class"})
Marked == {"listen"}
FreedNext == {"vhost", "badword", "spamfilter", "deny", "allow_channel", "allow_dcc"}
FreedLast == {"drpass", "log", "alias", "help", "offchans", "cgiirc", "files"}
AfterRehash(inUse) ==
  IF block \in FreedFirst(inUse) \cup Marked \cup FreedNext \cup FreedLast \cup {"set"} THEN <<>>
  ELSE field
Rehashes == running = "up" /\ \E inUse \in BOOLEAN : Loads(AfterRehash(inUse))

(* The server stops, of itself or by m_die; the operator may start it      *)
(* again, after correcting the files.                                      *)
Stops ==
  /\ running # "off"
  /\ running' = "off" /\ field' = <<>> /\ loaded' = <<>> /\ warned' = FALSE /\ kept' = FALSE
  /\ UNCHANGED <<block, directive, file>>

FilesNext == Edits \/ Starts \/ Rehashes \/ Stops
FilesSpec == FilesInit /\ [][FilesNext]_filesVars

----------------------------------------------------------------------------
(* Directives that _conf_ reads although the test lets an entry without a  *)
(* value through: in me {} it is told and not counted, a vhost::swhois and *)
(* the two of set::ssl are not looked at (s_conf.c:7748), and the test of  *)
(* set::default-ipv6-clone-mask reads it without asking.                   *)
Unchecked ==
  {<<"me", "name">>, <<"me", "info">>, <<"me", "numeric">>, <<"vhost", "swhois">>,
   <<"set", "ssl::renegotiate-timeout">>, <<"set", "ssl::renegotiate-bytes">>,
   <<"set", "default-ipv6-clone-mask">>}
MayLack == IF <<block, directive>> \in Unchecked THEN {"none"} ELSE {}

(* What was accepted without a word about a second entry can be used: no   *)
(* _conf_ function dies of it, and no field holds a missing or a bad       *)
(* value.  The exceptions are the files with an entry without a value for  *)
(* one of the directives named in Unchecked: the code does die of them, or *)
(* runs with nothing in the field.                                         *)
AcceptedIsUsable ==
  /\ running = "dead" =>
       warned \/ Test(file).errors \/ Range(file) \cap MayLack # {}
  /\ running = "up" /\ ~warned =>
       \A v \in Range(field) : v \notin {"none", "bad"} \ MayLack

(* Directives that keep what an earlier configuration said when the new    *)
(* one says nothing: _conf_class does not reset the recvq of a class that  *)
(* is in use (s_conf.c:4087), nothing takes SILENCE out of 005 again.      *)
KeptOver == {<<"class", "recvq">>, <<"isupport", "SILENCE">>}

(* A REHASH leaves the server as a restart with the same files would:      *)
(* nothing of the old configuration stays.  The exception is a directive   *)
(* of KeptOver that was there before, in a block that stayed, and that the *)
(* new files do not have.                                                  *)
RehashIsRestart ==
  running = "up" =>
    \/ field = Conf(<<>>, loaded)
    \/ <<block, directive>> \in KeptOver /\ kept /\ loaded = <<>>
=============================================================================
