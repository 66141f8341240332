------------------------------- MODULE Config -------------------------------
(***************************************************************************)
(* The config file and what a command makes of it: LoadConfigFile with its *)
(* validation, the rewriting of the file by a login or by the first use    *)
(* of an identity, and the start of a tunnel command, which turns file and *)
(* flags into port rules, a security policy, a session target and the      *)
(* rules of the tunnel.                                                    *)
(*                                                                         *)
(* A port specification is the pair of numbers it is read as ("8080" is    *)
(* 8080 twice, a malformed one is Malformed); a rule ID is Unset, one of   *)
(* two numbers, a word, or a generated number, which is taken to be new.   *)
(* Hosts of rules, the account's fields and the numbers of network other   *)
(* than the session limit, which is resolved the same way, are left out.   *)
(***************************************************************************)
EXTENDS Integers, FiniteSets, SequencesExt

CONSTANTS
  MaxPort,        \* the highest port (65535)
  DefaultLimit,   \* settings.DefaultSessionLimit (16)
  HardLimit,      \* settings.HardSessionLimit (64)
  DefaultTarget,  \* defaultAutoSessions (4)
  Unset,          \* an empty string, a nil list, an unset number
  Automatic,      \* the word auto, where a number may stand
  Files,          \* the config files a user may write
  Commands        \* the flags a command may be started with

ASSUME LimitsAssumption ==
  /\ MaxPort \in Nat \ {0}
  /\ DefaultLimit \in 1..HardLimit
  /\ DefaultTarget \in Nat \ {0}

(* What a field or a flag may hold.  Nothing is assumed of the numbers.    *)
PortSpec == [first : Int, last : Int]
Optional(S) == S \cup {Unset}
Sides == [local : Optional(PortSpec), remote : Optional(PortSpec)]
Mapping == [id : Optional(STRING),
            localPort : Int, localRange : Optional(PortSpec),
            remotePort : Int, remoteRange : Optional(PortSpec),
            range : Optional(Sides)]

ConfigFile == [mappings : Seq(Mapping),
               allowLAN : BOOLEAN, allowedPorts : Optional(Seq(Int)),
               sessionMode : Optional(STRING \cup {Automatic}), sessions : Int,
               limit : Int, stun : Optional(Seq(STRING)), platform : Int,
               versionCode : Optional(STRING), known : BOOLEAN]

Flags == [id : Optional(STRING), mapping : Optional(Sides),
          local : Optional(PortSpec), remote : Optional(PortSpec),
          allowLAN : BOOLEAN, allowedPorts : Optional(Seq(Optional(PortSpec))),
          sessions : Optional(Int \cup {Automatic}), init : BOOLEAN]

ASSUME UnsetAssumption == Unset \notin PortSpec
ASSUME FilesAssumption == Files \subseteq ConfigFile
ASSUME CommandsAssumption == Commands \subseteq Flags

VARIABLES
  file,      \* the config file
  process    \* the running command and what it works with, or Stopped

vars == <<file, process>>

Port == 1..MaxPort
Stopped == [running |-> FALSE]

------------------------------------------------------------------------------
(* Port specifications and rules. *)

Spec1(p) == [first |-> p, last |-> p]
Malformed == Spec1(0)

ValidSpec(spec) ==
  spec # Unset /\ spec.first > 0 /\ spec.last <= MaxPort /\ spec.first <= spec.last

Size(spec) == spec.last - spec.first + 1

Expandable(local, remote) ==
  ValidSpec(local) /\ ValidSpec(remote) /\ Size(local) = Size(remote)

ExpandPortRange(local, remote) ==
  [i \in 1..Size(local) |->
     [local |-> local.first + i - 1, remote |-> remote.first + i - 1]]

(* What one configured mapping gives as its port: the range, or the port.  *)
SideSpec(range, port) ==
  IF range = Unset /\ port # 0 THEN Spec1(port) ELSE range

Ranged(m) == m.localRange # Unset \/ m.remoteRange # Unset
LocalSpec(m) == SideSpec(m.localRange, m.localPort)
RemoteSpec(m) == SideSpec(m.remoteRange, m.remotePort)

MappingAccepted(m) ==
  IF m.range # Unset THEN Expandable(m.range.local, m.range.remote)
  ELSE IF Ranged(m) THEN Expandable(LocalSpec(m), RemoteSpec(m))
  ELSE m.localPort > 0 /\ m.remotePort > 0

MappingPairs(m) ==
  IF m.range # Unset THEN ExpandPortRange(m.range.local, m.range.remote)
  ELSE IF Ranged(m) THEN ExpandPortRange(LocalSpec(m), RemoteSpec(m))
  ELSE <<[local |-> m.localPort, remote |-> m.remotePort]>>

FlagsAccepted(mappings, cli) ==
  /\ cli.mapping # Unset => Expandable(cli.mapping.local, cli.mapping.remote)
  /\ cli.local # Unset \/ cli.remote # Unset =>
       /\ Expandable(cli.local, cli.remote)
       /\ mappings = <<>> \/ cli.id = Unset

(* The ports of a range never share an ID. *)
AppendPairs(id, pairs) ==
  [i \in DOMAIN pairs |->
     [id |-> IF Len(pairs) > 1 THEN Unset ELSE id, pair |-> pairs[i]]]

(* Every rule the mappings and the flags ask for, in order. *)
Asked(mappings, cli) ==
  FlattenSeq([i \in DOMAIN mappings |-> AppendPairs(mappings[i].id, MappingPairs(mappings[i]))])
    \o (IF cli.mapping = Unset THEN <<>>
        ELSE AppendPairs(cli.id, ExpandPortRange(cli.mapping.local, cli.mapping.remote)))
    \o (IF cli.local = Unset /\ cli.remote = Unset THEN <<>>
        ELSE AppendPairs(cli.id, ExpandPortRange(cli.local, cli.remote)))

Named(asked) ==
  [i \in DOMAIN asked |->
     [asked[i] EXCEPT !.id = IF @ = Unset THEN "generated" \o ToString(i) ELSE @]]

\* Mutant: a rule ID may be used twice.
NoDuplicateUnchecked(rules) == TRUE

NoDuplicate(rules) == IsInjective([i \in DOMAIN rules |-> rules[i].id])

RulesAccepted(mappings, cli) ==
  /\ \A i \in DOMAIN mappings : MappingAccepted(mappings[i])
  /\ FlagsAccepted(mappings, cli)
  /\ \A i \in DOMAIN Asked(mappings, cli) : Asked(mappings, cli)[i].id # "word"
  /\ NoDuplicate(Named(Asked(mappings, cli)))

(* The first rule of an ID wins, the others are ignored. *)
NewTunnelRules(rules) ==
  [id \in {rules[i].id : i \in DOMAIN rules} |->
     rules[CHOOSE i \in DOMAIN rules :
             rules[i].id = id /\ \A j \in 1..(i - 1) : rules[j].id # id].pair]

------------------------------------------------------------------------------
(* The targets a CONNECT may dial. *)

Host == {"loopback", "lan", "malformed"}

(* Parts of -allowed-ports, parsed. *)
PortsAccepted(parts) == parts # <<>> /\ \A i \in DOMAIN parts : ValidSpec(parts[i])
ParseAllowedPorts(parts) == UNION {parts[i].first..parts[i].last : i \in DOMAIN parts}

PolicyAccepted(cfg, cli) ==
  IF cli.allowedPorts # Unset THEN PortsAccepted(cli.allowedPorts)
  ELSE cfg.allowedPorts # Unset => Range(cfg.allowedPorts) \subseteq Port

BuildSecurityPolicy(cfg, cli) ==
  [allowLAN |-> cfg.allowLAN \/ cli.allowLAN,
   ports |-> IF cli.allowedPorts # Unset THEN ParseAllowedPorts(cli.allowedPorts)
             ELSE IF cfg.allowedPorts # Unset THEN Range(cfg.allowedPorts)
             ELSE Unset]

ValidateTarget(policy, host, port) ==
  /\ port \in Port
  /\ host # "malformed"
  /\ policy.allowLAN \/ host = "loopback"
  /\ policy.ports # Unset => port \in policy.ports

(* sort.Ints: the ports in ascending order, each once. *)
Sorted(ports) ==
  CHOOSE q \in [1..Cardinality(ports) -> ports] :
    \A i, j \in DOMAIN q : i < j => q[i] < q[j]

\* Mutant: a run of ports is closed with the port that broke it.
FormatAllowedPortsPast(ports) ==
  LET Extend(parts, port) ==
        IF parts # <<>> /\ port <= Last(parts).last + 2
        THEN [parts EXCEPT ![Len(parts)].last = port]
        ELSE Append(parts, Spec1(port))
  IN  FoldLeft(Extend, <<>>, Sorted(ports))

(* The whitelist as the log shows it: the runs of consecutive ports. *)
FormatAllowedPorts(ports) ==
  LET Extend(parts, port) ==
        IF parts # <<>> /\ port = Last(parts).last + 1
        THEN [parts EXCEPT ![Len(parts)].last = port]
        ELSE Append(parts, Spec1(port))
  IN  FoldLeft(Extend, <<>>, Sorted(ports))

------------------------------------------------------------------------------
(* The number of relay sessions. *)

(* The flag as resolveSessionPolicy reads it: Unset, "auto" or a number. *)
Wanted(cfg, cli) ==
  IF cli.sessions # Unset THEN IF cli.sessions = Automatic THEN 0 ELSE cli.sessions
  ELSE IF cfg.sessionMode = Unset THEN 0
  ELSE cfg.sessions

Manual(cfg, cli) ==
  IF cli.sessions # Unset THEN cli.sessions # Automatic ELSE cfg.sessionMode = "manual"

SessionTarget(cfg, cli, limit) ==
  IF cli.sessions # Unset /\ cli.sessions # Automatic THEN cli.sessions
  ELSE IF Wanted(cfg, cli) # 0 THEN Wanted(cfg, cli)
  ELSE IF Manual(cfg, cli) THEN 1
  ELSE IF DefaultTarget < limit THEN DefaultTarget ELSE limit

SessionsAccepted(cfg, cli, limit) ==
  /\ cli.sessions # Unset \/ cfg.sessionMode \in {Unset, Automatic, "manual"}
  /\ SessionTarget(cfg, cli, limit) \in 1..limit

------------------------------------------------------------------------------
(* The file. *)

(* Network.Resolve of the session limit, the identity's version code and   *)
(* platform (0 selects the default of each), and the lists that Validate   *)
(* leaves alone.                                                           *)
ResolveLimit(limit) == IF limit = 0 THEN DefaultLimit ELSE limit

Valid(cfg) ==
  /\ cfg.limit \in 0..HardLimit
  /\ cfg.stun # Unset => "bad" \notin Range(cfg.stun)
  /\ cfg.platform \in {0, 1, 4}
  /\ cfg.versionCode # "word"

Loaded(cfg) == [cfg EXCEPT !.limit = ResolveLimit(@)]

\* Mutant: the port is written when both forms are given.
WrittenMappingPort(m) ==
  [m EXCEPT !.localRange = IF m.localPort # 0 THEN Unset ELSE @,
            !.remoteRange = IF m.remotePort # 0 THEN Unset ELSE @]

(* PortMapping.MarshalJSON writes one form of each side, a range first;    *)
(* UnmarshalJSON reads a number as a port and a text as a range.           *)
WrittenMapping(m) ==
  [m EXCEPT !.localPort = IF m.localRange # Unset THEN 0 ELSE @,
            !.remotePort = IF m.remoteRange # Unset THEN 0 ELSE @]

(* omitempty drops an empty list; the STUN list is always written.         *)
OmitEmpty(list) == IF list = <<>> THEN Unset ELSE list

Written(cfg) ==
  [cfg EXCEPT !.mappings = [i \in DOMAIN @ |-> WrittenMapping(@[i])],
              !.allowedPorts = OmitEmpty(@)]

------------------------------------------------------------------------------
Init ==
  /\ file \in Files
  /\ process = Stopped

Accepted(cfg, cli) ==
  /\ Valid(cfg)
  /\ RulesAccepted(cfg.mappings, cli)
  /\ PolicyAccepted(cfg, cli)
  /\ SessionsAccepted(cfg, cli, ResolveLimit(cfg.limit))

Rules(cfg, cli) == Named(Asked(cfg.mappings, cli))

(* LoadConfigFile, or LoadOrInitConfigFile, which gives a file without a   *)
(* client ID a new one and rewrites it.                                    *)
InitIdentity ==
  IF file.known THEN UNCHANGED file
  ELSE file' = [Written(Loaded(file)) EXCEPT !.known = TRUE]

(* A login stores its token in the file it was started with.               *)
Login ==
  /\ ~process.running
  /\ Valid(file)
  /\ file' = [Written(Loaded(file)) EXCEPT !.known = TRUE]
  /\ UNCHANGED process

Start(cli) ==
  /\ ~process.running
  /\ Accepted(file, cli)
  /\ IF cli.init THEN InitIdentity ELSE UNCHANGED file
  /\ process' = [running |-> TRUE,
                 rules   |-> Rules(file, cli),
                 tunnel  |-> NewTunnelRules(Rules(file, cli)),
                 policy  |-> BuildSecurityPolicy(file, cli),
                 target  |-> SessionTarget(file, cli, ResolveLimit(file.limit))]

Stop ==
  /\ process.running
  /\ process' = Stopped
  /\ UNCHANGED file

Next == Login \/ Stop \/ \E cli \in Commands : Start(cli)

Spec == Init /\ [][Next]_vars

------------------------------------------------------------------------------
(***************************************************************************)
(* NewTunnelWithSettings ignores a rule whose ID is taken without an error *)
(* (tunnel.go:348-351): every port that the mappings and flags of a        *)
(* command that did start ask for is forwarded all the same, because       *)
(* BuildRules let no ID through twice.                                     *)
(***************************************************************************)
NoRuleIgnored ==
  process.running =>
    {asked.pair : asked \in Range(process.rules)} = Range(process.tunnel)

(***************************************************************************)
(* The whitelist a command logs (options.go:377-424) is the one it         *)
(* enforces: given as -allowed-ports it would allow the same ports.        *)
(***************************************************************************)
ShownIsEnforced ==
  process.running /\ process.policy.ports \notin {Unset, {}} =>
    LET shown == FormatAllowedPorts(process.policy.ports)
    IN  /\ PortsAccepted(shown)
        /\ ParseAllowedPorts(shown) = process.policy.ports
        /\ \A i \in 2..Len(shown) : shown[i].first > shown[i - 1].last + 1

(***************************************************************************)
(* Rewriting the file (a login, a new client ID) changes no tunnel: with   *)
(* any flags, the same commands start as before, with the same rules and   *)
(* the same number of sessions (sign.go:218-281, network.go:41-83).        *)
(***************************************************************************)
RewriteKeepsTunnel ==
  [][file' # file =>
       \A cli \in Commands :
         /\ Accepted(file', cli) = Accepted(file, cli)
         /\ Accepted(file, cli) =>
              /\ Rules(file', cli) = Rules(file, cli)
              /\ SessionTarget(file', cli, file'.limit)
                   = SessionTarget(file, cli, ResolveLimit(file.limit))]_vars

(* What a command started with these flags lets a peer dial.               *)
Allowed(cfg, cli) ==
  {target \in Host \X (0..MaxPort + 1) :
     ValidateTarget(BuildSecurityPolicy(cfg, cli), target[1], target[2])}

(***************************************************************************)
(* Claimed by README.md:394 ("When the field is omitted, all ports are     *)
(* allowed on permitted hosts. An empty array denies every target port"):  *)
(* a rewrite of the file keeps the targets it allows.                      *)
(***************************************************************************)
RewriteKeepsPolicy ==
  [][file' # file =>
       \A cli \in Commands :
         Accepted(file, cli) => Allowed(file', cli) = Allowed(file, cli)]_vars
=============================================================================
