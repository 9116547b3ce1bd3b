---------------------------- MODULE MasterServerGui ----------------------------
(***************************************************************************)
(* ConnectGuiMasterServer.js: the window that tests what NAT allows, lists *)
(* games and starts or joins one, while Update polls the test.  Unity's    *)
(* Network is modelled from how the script uses it.                        *)
(***************************************************************************)
EXTENDS Naturals

CONSTANTS
    Networks,   \* the networks the machine may be in, some of those below
    MaxRetests  \* bound: presses of "Retest connection"

VARIABLES
    network,        \* external: what a test finds out
    probe,          \* external: "normal" or "nat", the test under way
    answered,       \* external: the test has its answer
    filterNATHosts, probingPublicIP, doneTesting,
    timedOut,       \* Time.time > timer
    useNat,         \* Network.useNat
    peerType,       \* Network.peerType
    sessionNat,     \* external: Network.useNat when the session was started
    retests,        \* history: how often the test was repeated
    incapable,      \* history: the last test to find out about NAT punchthrough
                    \* has found that it is not possible
    connected       \* history: Connect set useNat since the test did

vars == <<network, probe, answered, filterNATHosts, probingPublicIP, doneTesting, timedOut,
          useNat, peerType, sessionNat, retests, incapable, connected>>
session == <<peerType, sessionNat>>
external == <<network, probe, answered>>

TypeOK ==
    /\ network \in Networks /\ probe \in {"normal", "nat"}
    /\ {answered, filterNATHosts, probingPublicIP, doneTesting, timedOut, useNat,
        sessionNat} \subseteq BOOLEAN
    /\ peerType \in {"Disconnected", "Server", "Client"}

Init ==
    /\ network \in Networks /\ probe = "normal" /\ answered = FALSE
    /\ filterNATHosts = FALSE /\ probingPublicIP = FALSE /\ doneTesting = FALSE
    /\ timedOut = TRUE /\ useNat = FALSE
    /\ peerType = "Disconnected" /\ sessionNat = FALSE
    /\ retests = 0 /\ incapable = FALSE /\ connected = FALSE

\* What Network.TestConnection returns.  A server makes a public address
\* accessible to the test; a test of NAT finds out whether it gets through.
natCapable ==
    IF ~answered THEN "Undetermined"
    ELSE CASE network = "private" -> "PrivateIPHasNATPunchThrough"
           [] network = "private, closed" -> "PrivateIPNoNATPunchthrough"
           [] network = "broken" -> "Error"
           [] network = "public" ->
                IF peerType = "Server" THEN "PublicIPIsConnectable" ELSE "PublicIPNoServerStarted"
           [] network = "firewall" ->
                IF probe = "nat" THEN "PrivateIPHasNATPunchThrough" ELSE "PublicIPPortBlocked"
           [] network = "firewall, closed" -> "PublicIPPortBlocked"
-----------------------------------------------------------------------------
(* Update: one poll of TestConnection, by what it returns.                 *)

Poll(status) == ~doneTesting /\ natCapable = status

Answer ==
    /\ ~answered /\ answered' = TRUE
    /\ UNCHANGED <<network, probe, filterNATHosts, probingPublicIP, doneTesting, timedOut,
                   useNat, session, retests, incapable, connected>>

TestsError ==
    /\ Poll("Error")
    /\ doneTesting' = TRUE
    /\ UNCHANGED <<external, filterNATHosts, probingPublicIP, timedOut, useNat, session,
                   retests, incapable, connected>>

FindsNoPunchthrough ==
    /\ Poll("PrivateIPNoNATPunchthrough")
    /\ filterNATHosts' = TRUE /\ incapable' = TRUE
    /\ useNat' = TRUE /\ connected' = FALSE
    /\ doneTesting' = TRUE
    /\ UNCHANGED <<external, probingPublicIP, timedOut, session, retests>>

FindsPunchthrough ==
    /\ Poll("PrivateIPHasNATPunchThrough")
    /\ useNat' = TRUE /\ connected' = FALSE
    /\ doneTesting' = TRUE /\ incapable' = FALSE
    /\ UNCHANGED <<external, filterNATHosts, probingPublicIP, timedOut, session, retests>>

FindsConnectable ==
    /\ Poll("PublicIPIsConnectable")
    /\ useNat' = FALSE /\ connected' = FALSE
    /\ doneTesting' = TRUE /\ incapable' = FALSE
    /\ UNCHANGED <<external, filterNATHosts, probingPublicIP, timedOut, session, retests>>

\* The first time, ask whether NAT gets through and start the timer
FindsPortBlocked ==
    /\ Poll("PublicIPPortBlocked") /\ ~probingPublicIP
    /\ probe' = "nat" /\ answered' = FALSE
    /\ probingPublicIP' = TRUE /\ timedOut' = FALSE
    /\ useNat' = FALSE /\ connected' = FALSE
    /\ UNCHANGED <<network, filterNATHosts, doneTesting, session, retests, incapable>>

\* else if (Time.time > timer)
GivesUp == timedOut

\* Still blocked: useNat is false until the timer is over; then the test of NAT
\* was performed and did not get through either
StillBlocked ==
    /\ Poll("PublicIPPortBlocked") /\ probingPublicIP
    /\ IF GivesUp
       THEN /\ probingPublicIP' = FALSE /\ doneTesting' = TRUE
            /\ useNat' = TRUE /\ incapable' = TRUE
       ELSE /\ useNat' = FALSE
            /\ UNCHANGED <<probingPublicIP, doneTesting, incapable>>
    /\ connected' = FALSE
    /\ UNCHANGED <<external, filterNATHosts, timedOut, session, retests>>

TimePasses ==
    /\ ~timedOut /\ timedOut' = TRUE
    /\ UNCHANGED <<external, filterNATHosts, probingPublicIP, doneTesting, useNat, session,
                   retests, incapable, connected>>
-----------------------------------------------------------------------------
(* MakeWindow.                                                             *)

\* Faulty: the script goes on waiting for the probe of NAT
ResetTesting == probingPublicIP' = probingPublicIP /\ doneTesting' = FALSE

Reset == probingPublicIP' = FALSE /\ doneTesting' = FALSE

\* The machine may have moved to another network meanwhile
Retest ==
    /\ retests < MaxRetests /\ retests' = retests + 1
    /\ Reset
    /\ network' \in Networks /\ probe' = "normal" /\ answered' = FALSE
    /\ UNCHANGED <<filterNATHosts, timedOut, useNat, session, incapable, connected>>

StartServer ==
    /\ peerType = "Disconnected"
    /\ peerType' = "Server" /\ sessionNat' = useNat
    /\ UNCHANGED <<external, filterNATHosts, probingPublicIP, doneTesting, timedOut, useNat,
                   retests, incapable, connected>>

\* !(filterNATHosts && element.useNat)
Listed(hostNat) == ~(filterNATHosts /\ hostNat)

\* The game is joined the way its host says
Connect ==
    /\ peerType = "Disconnected"
    /\ \E hostNat \in BOOLEAN :
        Listed(hostNat) /\ useNat' = hostNat /\ sessionNat' = hostNat
    /\ connected' = TRUE /\ peerType' = "Client"
    /\ UNCHANGED <<external, filterNATHosts, probingPublicIP, doneTesting, timedOut, retests,
                   incapable>>

\* By the button, or because the connection failed or was lost
Disconnect ==
    /\ peerType # "Disconnected" /\ peerType' = "Disconnected"
    /\ UNCHANGED <<external, filterNATHosts, probingPublicIP, doneTesting, timedOut, useNat,
                   sessionNat, retests, incapable, connected>>

Update ==
    \/ TestsError \/ FindsNoPunchthrough \/ FindsPunchthrough \/ FindsConnectable
    \/ FindsPortBlocked \/ StillBlocked

Next ==
    \/ Answer \/ Update \/ TimePasses
    \/ Retest \/ StartServer \/ Connect \/ Disconnect

Spec == Init /\ [][Next]_vars

FairSpec == Spec /\ WF_vars(Answer) /\ WF_vars(Update) /\ WF_vars(TimePasses)
-----------------------------------------------------------------------------
(* Properties.                                                             *)

\* The script takes an answer for one to the test of NAT exactly when it has
\* asked for that test, however often the test was repeated in between.
ProbesMatch == ~doneTesting => ((probe = "nat") <=> probingPublicIP)

\* A server started after the test uses NAT as the test found it must, however
\* often the test was repeated and the network changed.  A game that was joined
\* since leaves its NAT behind: ServersHaveNat.
StartUsesTest ==
    (/\ peerType = "Disconnected" /\ peerType' = "Server"
     /\ doneTesting /\ ~connected /\ network # "broken")
    => sessionNat' = (network # "public")
ServersUseTest == [][StartUsesTest]_vars

\* "NAT functionality is enabled in case a server is started" (line 84): once the
\* test has found that punchthrough is possible, a server is started with it.
\* Connect overwrites useNat (line 197), and nothing sets it again.
StartHasNat ==
    (/\ peerType = "Disconnected" /\ peerType' = "Server"
     /\ doneTesting /\ natCapable = "PrivateIPHasNATPunchThrough")
    => sessionNat'
ServersHaveNat == [][StartHasNat]_vars

\* "Do not display NAT enabled games if we cannot do NAT punchthrough" (line 170):
\* no game that needs NAT is joined while the last test to find out has found that
\* it cannot work.  The test that ends still blocked (line 109) filters nothing.
JoinIsPossible ==
    peerType = "Disconnected" /\ peerType' = "Client" /\ sessionNat' => ~incapable
JoinsPossible == [][JoinIsPossible]_vars

\* Every test ends, the one behind a firewall after the time for NAT, but for a
\* public address nobody serves at.
Testing == ~doneTesting
Ended == doneTesting \/ network = "public"
TestsEnd == Testing ~> Ended
=============================================================================
