--------------------------- MODULE ParserPlugins ----------------------------
(***************************************************************************)
(* What the plugins of the log parser make of a line: the event's level    *)
(* and time (log-parser/parser, and the choice of the plugin in            *)
(* log-parser/main.go).  A line is what the plugins can tell of it:        *)
(*   matches  the checks it passes: "object" (json.Unmarshal), "json"      *)
(*            (CanParse, braces around), and the regular expressions       *)
(*            "nginx", "rfc5424", "bsdWithPRI", "bsdNoPRI";                *)
(*   word     the value of its level field, or NoWord;                     *)
(*   status   its HTTP status;  pri  its syslog priority;                  *)
(*   dated    whether its time can be parsed;                              *)
(*   says     the time it says, on the parser's clock and in its zone if   *)
(*            the line states none: not always when it was written.  It is *)
(*            later than now if the clock of its host is ahead, if its     *)
(*            zone is further east, or if the line states a time to come.  *)
(***************************************************************************)
EXTENDS Integers, Sequences

CONSTANTS
  YearLength,   \* Units of time in a year.
  NoWord

ASSUME YearAssumption == YearLength \in Nat \ {0}

Levels == {"INFO", "WARN", "ERROR", "CRITICAL"}

NormalizeLevel(word) ==
  CASE word \in {"EMERG", "EMERGENCY", "PANIC", "FATAL", "CRIT", "CRITICAL", "ALERT"} ->
         "CRITICAL"
    [] word \in {"ERR", "ERROR"} -> "ERROR"
    [] word \in {"WARN", "WARNING"} -> "WARN"
    [] OTHER -> "INFO"

mapHTTPStatusToLevel(status) ==
  IF status >= 500 THEN "ERROR" ELSE IF status >= 400 THEN "WARN" ELSE "INFO"

mapSeverityToLevel(severity) ==
  CASE severity \in 0 .. 2 -> "CRITICAL"
    [] severity = 3 -> "ERROR"
    [] severity = 4 -> "WARN"
    [] OTHER -> "INFO"

Year(t) == t \div YearLength

(* A change could give a day that is past the year that comes.             *)
parseBSDTimeAhead(line, now) ==
  LET this == Year(now) * YearLength + (line.says % YearLength) IN
  IF ~line.dated THEN now ELSE IF this < now THEN this + YearLength ELSE this

(* The line says no year and no zone: it is taken for one of the year it   *)
(* is parsed in, and of the parser's zone (now.Location()).                *)
parseBSDTime(line, now) ==
  IF line.dated THEN Year(now) * YearLength + (line.says % YearLength) ELSE now

(* Any time that is stated is accepted.                                    *)
Stamp(line, now) == IF line.dated THEN line.says ELSE now
-----------------------------------------------------------------------------
Syslog == <<"rfc5424", "bsdWithPRI", "bsdNoPRI">>

CanParse(plugin, line) ==
  CASE plugin = "json" -> "json" \in line.matches
    [] plugin = "nginx" -> "nginx" \in line.matches
    [] plugin = "syslog" -> \E i \in 1 .. 3 : Syslog[i] \in line.matches

(* The registry is in the order of the files' init functions.              *)
registry == <<"json", "nginx", "syslog">>

(* The plugin of a line: the first that can parse it, or the source's.     *)
AutoDetect(line) == SelectSeq(registry, LAMBDA p : CanParse(p, line))
PluginsOf(line, format) ==
  IF format = "auto" THEN AutoDetect(line) ELSE SelectSeq(registry, LAMBDA p : p = format)

(* It may refuse the line: a source's plugin is not asked if it can parse. *)
Parses(plugin, line) ==
  IF plugin = "json" THEN "object" \in line.matches ELSE CanParse(plugin, line)

ParseJSON(line, now) ==
  [level |-> IF line.word = NoWord THEN "INFO" ELSE NormalizeLevel(line.word),
   at |-> Stamp(line, now)]

ParseNginx(line, now) ==
  [level |-> mapHTTPStatusToLevel(line.status), at |-> Stamp(line, now)]

ParseSyslog(line, now) ==
  LET form == SelectSeq(Syslog, LAMBDA s : s \in line.matches)[1] IN
  [level |-> IF form = "bsdNoPRI" THEN "INFO" ELSE mapSeverityToLevel(line.pri % 8),
   at |-> IF form = "rfc5424" THEN Stamp(line, now) ELSE parseBSDTime(line, now)]

(* processLine: what no plugin parses becomes an event of its own, now.    *)
Parsed(line, format, now) ==
  LET plugins == PluginsOf(line, format) IN
  IF plugins = <<>> \/ ~Parses(plugins[1], line) THEN [level |-> "INFO", at |-> now]
  ELSE CASE plugins[1] = "json" -> ParseJSON(line, now)
         [] plugins[1] = "nginx" -> ParseNginx(line, now)
         [] OTHER -> ParseSyslog(line, now)
=============================================================================
