---------------------------- MODULE MCComponents -----------------------------
(***************************************************************************)
(* Components side by side, for their invariants and action properties: each *)
(* behaviour runs one of them, chosen at the start, and leaves the others as *)
(* they are, so that one run stands for a run of each.  They share no state *)
(* and no call: what one needs of another is part of its own module.       *)
(***************************************************************************)
EXTENDS IslePorts, IsleVM, IsleDisks, IsleNetwork, IsleLog, SshChannel,
        SshHandshake, SshCipher, SshAuthServer, SshWire, SshCerts,
        SshKnownHosts

NetworkPlans ==
    {[boots |-> {"b1", "b2"}, whole |-> {"b1", "b2"}], [boots |-> {"b1", "b2", "b3", "b4"}, whole |-> {}]}

KexConfigs == {[c |-> <<"curve25519", "gex">>, s |-> <<"gex", "curve25519">>], [c |-> <<"gex">>, s |-> <<"dh", "gex">>],
      [c |-> <<"ecdh", "dh">>, s |-> <<"dh">>], [c |-> <<"ecdh">>, s |-> <<"dh", "ecdh">>], [c |-> <<"ecdh">>, s |-> <<"dh">>]}

Payloads == (1..17) \cup {31, 32, 33}

AuthorizedKeys == [alice |-> {"k1", "k2"}, bob |-> {"k2"}]
ServerConfigs ==
    {{"none"}, {"publickey"}, {"password", "publickey"}, {"keyboard-interactive", "gssapi-with-mic"}}

Message(tags, fields) == [tags |-> tags, fields |-> fields, bare |-> FALSE]
MessageTypes ==
    {Message(<<1>>, <<"string", "u32", "rest">>), Message(<<2, 3>>, <<"array", "names", "bool">>),
     Message(<<>>, <<"mpint", "u8">>), Message(<<>>, <<"rest">>), Message(<<>>, <<"u8", "string", "u64">>),
     [tags |-> <<3>>, fields |-> <<>>, bare |-> TRUE]}
FieldValues ==
    [bool |-> BOOLEAN, array |-> {<<0, 3>>}, u8 |-> {0, 2}, u32 |-> {0, 15}, u64 |-> {0, 16, 255},
     string |-> {<<>>, <<0>>, <<3, 1>>}, rest |-> {<<>>, <<1, 0>>}, mpint |-> -17..17,
     names |-> {<<>>, <<<<>>>>, <<<<1>>>>, <<<<1>>, <<0, 2>>>>, <<<<1>>, <<>>>>}]

OptionNames == <<"force-command", "source-address", "zz">>
OptionSets == {{}, {"force-command", "source-address"}, {"zz"}}
FirstCert == CHOOSE c \in CertsMade : TRUE

Key(type, name) == [type |-> type, name |-> name]
Pattern(negate, host) == [negate |-> negate, host |-> host, port |-> "22"]
Line(marker, pats, hash, key) == [marker |-> marker, pats |-> pats, hash |-> hash, key |-> key]
HostNames == {<<"a">>, <<"a", "b">>, <<":", "1">>}
V6Names == {<<":", "1">>}
HostKeys == {Key("rsa", "r1"), Key("rsa", "r2"), Key("ed", "e1")}
FileLines ==
    {Line("", <<Pattern(FALSE, <<"a", "*">>), Pattern(TRUE, <<"?", "b">>)>>, <<>>, Key("rsa", "r1")),
     Line("", <<Pattern(FALSE, <<"*", "b">>)>>, <<>>, Key("rsa", "r2")),
     Line("", <<Pattern(FALSE, <<"*">>)>>, <<>>, Key("ed", "e1")),
     Line("", <<>>, <<"s", Normalize(<<"a">>, "2222")>>, Key("rsa", "r1")),
     Line("@cert-authority", <<Pattern(FALSE, <<"a", "?">>)>>, <<>>, Key("rsa", "r2")),
     Line("@revoked", <<Pattern(FALSE, <<"*">>)>>, <<>>, Key("rsa", "r1")),
     Line("bad", <<>>, <<>>, Key("rsa", "r1"))}

------------------------------------------------------------------------------
VARIABLE part  \* the component that runs

allVars == <<part, portsVars, vmVars, diskVars, nwVars, lgVars, chanVars,
             hsVars, cipherVars, authVars, wrVars, certVars, khVars>>

(* A component that does not run starts in one of its initial states.       *)
Fixed(p, x, S) == part # p => x = CHOOSE e \in S : TRUE

AllInit ==
    /\ part \in {"ports", "vm", "disks", "network", "log", "channel",
                "handshake", "cipher", "authServer", "wire", "certs",
                "knownHosts"}
    /\ PortsInit
    /\ VMInit
    /\ DiskInit /\ Fixed("disks", config, [Disks -> Sizes])
    /\ NwInit /\ Fixed("network", nwPlan, NwPlans)
    /\ LgInit
    /\ ChanInit
    /\ HsInit /\ Fixed("handshake", hConf, HsConfigs)
    /\ CipherInit /\ Fixed("cipher", yMode, CipherModes) /\ Fixed("cipher", yWSeq, {0})
    /\ AuthInit /\ Fixed("authServer", aConf, AuthConfigs)
    /\ WrInit /\ Fixed("wire", wrType, WrTypes)
    /\ CertInit /\ Fixed("certs", ctCert, {FirstCert}) /\ Fixed("certs", ctTime, CertTimes)
    /\ KhInit

AllNext ==
    /\ UNCHANGED part
    /\ IF part = "ports" THEN PortsNext ELSE UNCHANGED portsVars
    /\ IF part = "vm" THEN VMNext ELSE UNCHANGED vmVars
    /\ IF part = "disks" THEN DiskNext ELSE UNCHANGED diskVars
    /\ IF part = "network" THEN NwNextStep ELSE UNCHANGED nwVars
    /\ IF part = "log" THEN LgNext ELSE UNCHANGED lgVars
    /\ IF part = "channel" THEN ChanNext ELSE UNCHANGED chanVars
    /\ IF part = "handshake" THEN HsNext ELSE UNCHANGED hsVars
    /\ IF part = "cipher" THEN CipherNext ELSE UNCHANGED cipherVars
    /\ IF part = "authServer" THEN AuthNext ELSE UNCHANGED authVars
    /\ IF part = "wire" THEN WrNext ELSE UNCHANGED wrVars
    /\ IF part = "certs" THEN CertNext ELSE UNCHANGED certVars
    /\ IF part = "knownHosts" THEN KhNext ELSE UNCHANGED khVars

AllSpec == AllInit /\ [][AllNext]_allVars
==============================================================================
