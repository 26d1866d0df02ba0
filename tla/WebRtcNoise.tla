----------------------------- MODULE WebRtcNoise -----------------------------
(***************************************************************************)
(* The Noise upgrade of a WebRTC connection (webrtc/src/tokio/upgrade/     *)
(* noise.rs).  The WebRTC listener runs inbound(), which drives Noise XX   *)
(* as initiator (upgrade_outbound); the dialer runs outbound(), the Noise  *)
(* responder (upgrade_inbound).  Both bind the handshake to the DTLS       *)
(* certificates by the prologue noise_prologue(client_fp, server_fp).     *)
(* Each side passes the fingerprints it knows: the dialer its own          *)
(* certificate and the one in the listener's address, the listener the     *)
(* certificate the DTLS peer presented and its own.  After the handshake   *)
(* each side closes the Noise channel and returns the remote PeerId.       *)
(*                                                                         *)
(* The XX messages are abstracted to what makes them acceptable: a message *)
(* that carries a key is accepted only by a party whose prologue and       *)
(* ephemeral keys are those the sender mixed into it; a static identity is *)
(* only sent by its owner.  With MitM the DTLS connection of each side     *)
(* ends at an attacker, who can forward what it reads and inject messages  *)
(* of its own under its own identity.  The data channel may fail.          *)
(***************************************************************************)
EXTENDS Naturals, Sequences

CONSTANTS
  C, S, A,          \* certificate fingerprints of dialer, listener, attacker
  Attack,           \* whether an attacker may sit in the middle: BOOLEAN cases
  Faults,           \* the data channel may fail
  MaxInjected       \* messages the attacker may inject or forward

ASSUME Attack \subseteq BOOLEAN /\ Faults \in BOOLEAN /\ MaxInjected \in Nat

VARIABLES
  srv,          \* listener, inbound(): [pc, peer, remote_e]
  cli,          \* dialer, outbound(): [pc, peer, remote_e]
  inbox,        \* side -> Noise messages delivered on its data channel
  intercepted,  \* messages the attacker has read
  injected,     \* messages the attacker has delivered
  broken,       \* the data channel has failed or been dropped
  mitm,         \* the DTLS connections of both sides end at the attacker
  failed        \* history: the data channel failed on its own

vars == <<srv, cli, inbox, intercepted, injected, broken, mitm, failed>>

Sides == {"srv", "cli"}
Peer(s) == IF s = "srv" THEN "cli" ELSE "srv"
Ids == {"ServerId", "ClientId", "AttackerId"}
Ephs == {"eS", "eC", "eA"}
None == "none"

(***************************************************************************)
(* noise_prologue: PREFIX, then the multihash bytes of both fingerprints.  *)
(* to_multihash().to_bytes() of a SHA-256 fingerprint is the code 0x12,    *)
(* the length 0x20 and the digest (here one element).                     *)
(***************************************************************************)
Multihash(fp) == <<18, 32, fp>>

\* Mutant: the prologue leaves out the client fingerprint.
noise_prologue_server_only(client_fp, server_fp) ==
  <<"libp2p-webrtc-noise:">> \o Multihash(server_fp)

noise_prologue(client_fp, server_fp) ==
  <<"libp2p-webrtc-noise:">> \o Multihash(client_fp) \o Multihash(server_fp)

\* The fingerprints each side knows.
ListenerClientFp == IF mitm THEN A ELSE C

\* inbound(id_keys, stream, client_fingerprint, server_fingerprint)
InboundPrologue == noise_prologue(ListenerClientFp, S)

\* Mutant: outbound hands its fingerprints to noise_prologue in its own
\* parameter order.
outbound_prologue_swapped(server_fingerprint, client_fingerprint) ==
  noise_prologue(server_fingerprint, client_fingerprint)

\* outbound(id_keys, stream, server_fingerprint, client_fingerprint) calls
\* noise_prologue(client_fingerprint, server_fingerprint).
outbound_prologue(server_fingerprint, client_fingerprint) ==
  noise_prologue(client_fingerprint, server_fingerprint)

\* The dialer passes the fingerprint in the listener's address, then its own.
OutboundPrologue == outbound_prologue(S, C)

Prologues == {noise_prologue(x, y) : x, y \in {C, S, A}}

Msg(n, e, remote_e, prologue, id) ==
  [n |-> n, e |-> e, remote_e |-> remote_e, prologue |-> prologue, id |-> id]

Messages ==
  {Msg(1, e, None, None, None) : e \in Ephs} \cup
  {Msg(n, e, r, p, i) : n \in {2, 3}, e \in Ephs, r \in Ephs,
                        p \in Prologues, i \in Ids}

\* What the attacker can produce: its own ephemeral and identity.
AttackerMessages ==
  {Msg(1, "eA", None, None, None)} \cup
  {Msg(n, "eA", r, p, "AttackerId") : n \in {2, 3}, r \in Ephs, p \in Prologues}

(* A message goes to the DTLS peer: the other side's inbox, or the        *)
(* attacker.  box is the inbox the sender leaves behind.                  *)
SendTo(from, m, box) ==
  /\ inbox' = IF mitm THEN box ELSE [box EXCEPT ![Peer(from)] = Append(@, m)]
  /\ intercepted' = IF mitm THEN intercepted \cup {m} ELSE intercepted

Init ==
  /\ srv = [pc |-> "send_e", peer |-> None, remote_e |-> None]
  /\ cli = [pc |-> "await_e", peer |-> None, remote_e |-> None]
  /\ inbox = [s \in Sides |-> <<>>]
  /\ intercepted = {}
  /\ injected = 0
  /\ broken = FALSE
  /\ mitm \in Attack
  /\ failed = FALSE

(***************************************************************************)
(* inbound(): the listener, Noise initiator.                               *)
(***************************************************************************)

\* -> e
InboundSendE ==
  /\ srv.pc = "send_e"
  /\ ~broken
  /\ srv' = [srv EXCEPT !.pc = "await_e_ee_s_es"]
  /\ SendTo("srv", Msg(1, "eS", None, None, None), inbox)
  /\ UNCHANGED <<cli, injected, broken, mitm, failed>>

(* <- e, ee, s, es: accepted when keyed to our e and our prologue; then   *)
(* -> s, se, and upgrade_outbound returns the remote PeerId.  A message    *)
(* that fails to decrypt ends the upgrade with an error, dropping the      *)
(* stream.                                                                 *)
InboundReadResponse ==
  /\ srv.pc = "await_e_ee_s_es"
  /\ inbox["srv"] /= <<>>
  /\ LET m == Head(inbox["srv"]) IN
       IF m.n = 2 /\ m.remote_e = "eS" /\ m.prologue = InboundPrologue
       THEN /\ srv' = [pc |-> "close", peer |-> m.id, remote_e |-> m.e]
            /\ SendTo("srv", Msg(3, "eS", m.e, InboundPrologue, "ServerId"),
                      [inbox EXCEPT !["srv"] = Tail(@)])
            /\ UNCHANGED broken
       ELSE /\ srv' = [srv EXCEPT !.pc = "err"]
            /\ broken' = TRUE
            /\ inbox' = [inbox EXCEPT !["srv"] = Tail(@)]
            /\ UNCHANGED intercepted
  /\ UNCHANGED <<cli, injected, mitm, failed>>

(***************************************************************************)
(* outbound(): the dialer, Noise responder.                                *)
(***************************************************************************)

\* <- e, then -> e, ee, s, es
OutboundReadE ==
  /\ cli.pc = "await_e"
  /\ inbox["cli"] /= <<>>
  /\ LET m == Head(inbox["cli"]) IN
       IF m.n = 1
       THEN /\ cli' = [cli EXCEPT !.pc = "await_s_se", !.remote_e = m.e]
            /\ SendTo("cli", Msg(2, "eC", m.e, OutboundPrologue, "ClientId"),
                      [inbox EXCEPT !["cli"] = Tail(@)])
            /\ UNCHANGED broken
       ELSE /\ cli' = [cli EXCEPT !.pc = "err"]
            /\ broken' = TRUE
            /\ inbox' = [inbox EXCEPT !["cli"] = Tail(@)]
            /\ UNCHANGED intercepted
  /\ UNCHANGED <<srv, injected, mitm, failed>>

\* <- s, se: upgrade_inbound returns the remote PeerId.
OutboundReadFinal ==
  /\ cli.pc = "await_s_se"
  /\ inbox["cli"] /= <<>>
  /\ LET m == Head(inbox["cli"]) IN
       IF /\ m.n = 3 /\ m.e = cli.remote_e /\ m.remote_e = "eC"
          /\ m.prologue = OutboundPrologue
       THEN /\ cli' = [cli EXCEPT !.pc = "close", !.peer = m.id]
            /\ UNCHANGED broken
       ELSE /\ cli' = [cli EXCEPT !.pc = "err"]
            /\ broken' = TRUE
  /\ inbox' = [inbox EXCEPT !["cli"] = Tail(@)]
  /\ UNCHANGED <<srv, intercepted, injected, mitm, failed>>

(***************************************************************************)
(* Both: channel.close().await? then Ok(peer_id); reads on a failed or     *)
(* dropped data channel return the error.                                  *)
(***************************************************************************)

Party(s) == IF s = "srv" THEN srv ELSE cli

SetPc(s, pc) ==
  IF s = "srv" THEN srv' = [srv EXCEPT !.pc = pc] /\ UNCHANGED cli
               ELSE cli' = [cli EXCEPT !.pc = pc] /\ UNCHANGED srv

Close(s) ==
  /\ Party(s).pc = "close"
  /\ \/ SetPc(s, "ok")
     \/ broken /\ SetPc(s, "err")
  /\ UNCHANGED <<inbox, intercepted, injected, broken, mitm, failed>>

ReadFails(s) ==
  /\ Party(s).pc \in {"await_e_ee_s_es", "await_e", "await_s_se"}
  /\ broken
  /\ inbox[s] = <<>>
  /\ SetPc(s, "err")
  /\ UNCHANGED <<inbox, intercepted, injected, broken, mitm, failed>>

(***************************************************************************)
(* The environment: the attacker on a MitM path, and channel failure.     *)
(***************************************************************************)

Deliver(s, m) ==
  /\ mitm
  /\ injected < MaxInjected
  /\ inbox' = [inbox EXCEPT ![s] = Append(@, m)]
  /\ injected' = injected + 1
  /\ UNCHANGED <<srv, cli, intercepted, broken, mitm, failed>>

Forward == \E s \in Sides, m \in intercepted : Deliver(s, m)
Inject == \E s \in Sides, m \in AttackerMessages : Deliver(s, m)

ChannelFails ==
  /\ Faults
  /\ ~broken
  /\ broken' = TRUE
  /\ failed' = TRUE
  /\ UNCHANGED <<srv, cli, inbox, intercepted, injected, mitm>>

Next ==
  \/ InboundSendE \/ InboundReadResponse
  \/ OutboundReadE \/ OutboundReadFinal
  \/ \E s \in Sides : Close(s) \/ ReadFails(s)
  \/ Forward \/ Inject
  \/ ChannelFails

\* The two tasks are polled until they complete.
Fairness ==
  /\ WF_vars(InboundSendE) /\ WF_vars(InboundReadResponse)
  /\ WF_vars(OutboundReadE) /\ WF_vars(OutboundReadFinal)
  /\ \A s \in Sides : WF_vars(Close(s)) /\ WF_vars(ReadFails(s))

Spec == Init /\ [][Next]_vars /\ Fairness

Pcs == {"send_e", "await_e_ee_s_es", "await_e", "await_s_se",
        "close", "ok", "err"}

TypeOK ==
  /\ \A s \in Sides : /\ Party(s).pc \in Pcs
                      /\ Party(s).peer \in Ids \cup {None}
                      /\ inbox[s] \in Seq(Messages)
  /\ intercepted \subseteq Messages
  /\ injected \in 0 .. MaxInjected
  /\ broken \in BOOLEAN /\ mitm \in Attack /\ failed \in BOOLEAN

(***************************************************************************)
(* Properties                                                              *)
(***************************************************************************)

Authenticated(s, id) == Party(s).pc \in {"close", "ok"} /\ Party(s).peer = id

(* The prologue binds the Noise identities to the DTLS certificates: a     *)
(* side completes the upgrade with the other honest side's PeerId only     *)
(* when both saw the same certificates (the listener's DTLS peer presented *)
(* the dialer's certificate C), so an attacker terminating DTLS in the     *)
(* middle cannot relay the handshake into an authenticated connection      *)
(* between them.                                                           *)
ChannelBinding ==
  (Authenticated("srv", "ClientId") \/ Authenticated("cli", "ServerId"))
    => ListenerClientFp = C

(* With direct DTLS connections and a data channel that never fails,      *)
(* inbound() and outbound() both return Ok with each other's PeerId: the   *)
(* two functions take their fingerprints in opposite parameter orders and  *)
(* must still build the same prologue.                                     *)
HonestHandshakeSucceeds ==
  ~mitm /\ []~failed =>
  <>(/\ srv.pc = "ok" /\ srv.peer = "ClientId"
     /\ cli.pc = "ok" /\ cli.peer = "ServerId")

=============================================================================
