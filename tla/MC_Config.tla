------------------------------ MODULE MC_Config ------------------------------
(***************************************************************************)
(* Config with five ports: files and flags that vary one or two settings   *)
(* around a plain file and a plain command line.                           *)
(***************************************************************************)
EXTENDS Config

Spec2(a, b) == [first |-> a, last |-> b]
Side2(l, r) == [local |-> l, remote |-> r]
Specs == {Unset, Malformed, Spec1(1), Spec2(2, 3), Spec2(4, 5)}

Plain == [id |-> Unset, localPort |-> 0, localRange |-> Unset,
          remotePort |-> 0, remoteRange |-> Unset, range |-> Unset]

Single == [Plain EXCEPT !.localPort = 1, !.remotePort = 5]

MappingSet ==
  {[Plain EXCEPT !.localPort = p, !.localRange = l, !.remotePort = q, !.remoteRange = r] :
     p \in {0, 1}, l \in Specs, q \in {0, 2}, r \in Specs}
  \cup {[Single EXCEPT !.range = Side2(l, r)] : l, r \in Specs}

Pairs ==
  {<<[Single EXCEPT !.id = i], [m EXCEPT !.id = j]>> :
     i, j \in {Unset, "1", "2", "word"},
     m \in {Single, [Plain EXCEPT !.range = Side2(Spec2(2, 3), Spec2(4, 5))]}}

PlainFile == [mappings |-> <<>>, allowLAN |-> FALSE, allowedPorts |-> Unset,
              sessionMode |-> Unset, sessions |-> 0, limit |-> 0, stun |-> Unset,
              platform |-> 0, versionCode |-> Unset, known |-> TRUE]

MCFiles ==
  {[PlainFile EXCEPT !.mappings = <<m>>] : m \in MappingSet}
  \cup {[PlainFile EXCEPT !.mappings = p, !.known = k] : p \in Pairs, k \in BOOLEAN}
  \cup {[PlainFile EXCEPT !.sessionMode = m, !.sessions = n, !.limit = l] :
          m \in {Unset, Automatic, "manual", "word"}, n \in 0..5, l \in 0..5}
  \cup {[PlainFile EXCEPT !.allowLAN = b, !.allowedPorts = a, !.known = k] :
          b, k \in BOOLEAN,
          a \in {Unset, <<>>, <<1>>, <<3, 1>>, <<0, 2>>, <<2, 4, 3, 5>>}}
  \cup {[PlainFile EXCEPT !.stun = s, !.platform = p, !.versionCode = v] :
          s \in {Unset, <<>>, <<"good">>, <<"good", "bad">>}, p \in {0, 1, 2, 4},
          v \in {Unset, "number", "word"}}

PlainCommand == [id |-> Unset, mapping |-> Unset, local |-> Unset, remote |-> Unset,
                 allowLAN |-> FALSE, allowedPorts |-> Unset, sessions |-> Unset, init |-> FALSE]

MCCommands ==
  {[PlainCommand EXCEPT !.id = i, !.mapping = m, !.local = l, !.remote = r] :
     i \in {Unset, "1"}, m \in {Unset, Side2(Spec1(1), Spec1(2)), Side2(Spec2(1, 2), Spec2(2, 3))},
     l \in {Unset, Spec1(3), Spec2(4, 5)}, r \in {Unset, Spec1(3), Spec2(4, 5)}}
  \cup {[PlainCommand EXCEPT !.allowLAN = b, !.allowedPorts = p, !.init = TRUE] :
          b \in BOOLEAN,
          p \in {Unset, <<Malformed>>, <<Spec2(4, 5), Spec1(1)>>, <<Spec2(1, 3), Spec1(2)>>}}
  \cup {[PlainCommand EXCEPT !.sessions = s] : s \in {Automatic} \cup 0..4}
=============================================================================
