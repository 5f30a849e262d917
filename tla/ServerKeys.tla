----------------------------- MODULE ServerKeys -----------------------------
(***************************************************************************)
(* The files a SecureServer lives on (src/SecureConnection.cpp):           *)
(* generateRSAKey writes a pair of keys, generateCertificate a certificate *)
(* of them, and the constructor of SecureServer reads both and makes the   *)
(* file of the Diffie-Hellman parameters when there is none.               *)
(*                                                                         *)
(* What is written stays in the memory of the program until the file is    *)
(* closed, which the destructors do; a program may be killed at any step.  *)
(* One program at a time uses the files.  A call that fails before it has  *)
(* changed anything is left out.                                           *)
(***************************************************************************)
EXTENDS Integers

CONSTANTS
    Passwords,  \* what keys are encrypted with
    MaxPairs    \* bound: pairs of keys generated

\* The empty password, which is none.
NoPassword == ""

ASSUME PasswordsAssumption == NoPassword \in Passwords
ASSUME MaxPairsAssumption == MaxPairs \in Nat

\* Keys are numbered in the order they are generated.  A file that is not
\* there holds Absent, one that nothing can be read from Unreadable.
Absent == -1
Unreadable == 0
Held == Absent..MaxPairs

DhFile == {"absent", "unreadable", "whole"}

VARIABLES
    pc,           \* where the program is, "idle" between calls
    pairs,        \* pairs generated so far
    password,     \* the password of the call
    n, d,         \* the pair generateCertificate has read: public and private key
    unwritten,    \* files whose content is still in memory
    generated,    \* how the last generateRSAKey ended, or "running"
    public,       \* the file of the public key: the pair it is of
    private,      \* the file of the private key: the pair it is of,
    lock,         \*   and what it is encrypted with
    certificate,  \* the file of the certificate: the pair it names,
    signer,       \*   and that it is signed with
    dh            \* the file of the Diffie-Hellman parameters

call == <<pairs, password, n, d>>
keyFile == <<private, lock>>
certFile == <<certificate, signer>>
files == <<public, keyFile, certFile, dh>>
vars == <<pc, call, unwritten, generated, files>>

Generates == {"open_public", "write_public", "open_private", "write_private", "close_keys"}
Certifies == {"read_public", "open_certificate", "write_certificate", "close_certificate"}
Starts == {"look_for_dh", "open_dh", "write_dh", "close_dh", "read_dh"}

Init ==
    /\ pc = "idle" /\ pairs = 0 /\ password = NoPassword
    /\ n = 0 /\ d = 0
    /\ unwritten = {} /\ generated = "never"
    /\ public = Absent /\ private = Absent /\ lock = NoPassword
    /\ certificate = Absent /\ signer = 0 /\ dh = "absent"

Goes(from, to) == pc = from /\ pc' = to
------------------------------------------------------------------------------
(* Mistakes one could make in the operations below: what the properties    *)
(* must notice.  No behaviour of Spec uses them.                           *)

\* The public key's file left as it is until the new key is written.
OpenPublicKeeps ==
    /\ Goes("open_public", "write_public")
    /\ UNCHANGED <<call, unwritten, generated, files>>

\* The certificate not compared with the key.
StartUnchecked(given) ==
    /\ certificate > 0 /\ private > 0
    /\ lock \in {NoPassword, given}
    /\ Goes("idle", "look_for_dh")
    /\ UNCHANGED <<call, unwritten, generated, files>>

\* Parameters that cannot be read made again.
LookForDhAgain ==
    /\ pc = "look_for_dh"
    /\ pc' = IF dh # "whole" THEN "open_dh" ELSE "read_dh"
    /\ UNCHANGED <<call, unwritten, generated, files>>
------------------------------------------------------------------------------
(* generateRSAKey.                                                         *)

Generate(given) ==
    /\ pairs < MaxPairs
    /\ Goes("idle", "open_public")
    /\ pairs' = pairs + 1 /\ password' = given /\ generated' = "running"
    /\ UNCHANGED <<n, d, unwritten, files>>

OpenPublic ==
    /\ Goes("open_public", "write_public")
    /\ public' = Unreadable
    /\ UNCHANGED <<call, unwritten, generated, keyFile, certFile, dh>>

WritePublic ==
    /\ Goes("write_public", "open_private")
    /\ unwritten' = unwritten \cup {"public"}
    /\ UNCHANGED <<call, generated, files>>

OpenPrivate ==
    /\ Goes("open_private", "write_private")
    /\ private' = Unreadable /\ lock' = NoPassword
    /\ UNCHANGED <<call, unwritten, generated, public, certFile, dh>>

WritePrivate ==
    /\ Goes("write_private", "close_keys")
    /\ unwritten' = unwritten \cup {"private"}
    /\ UNCHANGED <<call, generated, files>>

\* An open or a write fails: the exception closes what is open.
GenerateThrows ==
    /\ pc \in Generates \ {"close_keys"} /\ pc' = "close_keys"
    /\ generated' = "threw"
    /\ UNCHANGED <<call, unwritten, files>>

\* The file opened last is closed first.  A full disk goes unnoticed.
ClosePrivate ==
    /\ pc = "close_keys" /\ "private" \in unwritten
    /\ unwritten' = unwritten \ {"private"}
    /\ \/ private' = pairs /\ lock' = password
       \/ private' = Unreadable /\ lock' = NoPassword
    /\ UNCHANGED <<pc, call, generated, public, certFile, dh>>

ClosePublic ==
    /\ pc = "close_keys" /\ unwritten = {"public"}
    /\ unwritten' = {}
    /\ public' \in {pairs, Unreadable}
    /\ UNCHANGED <<pc, call, generated, keyFile, certFile, dh>>

GenerateEnds ==
    /\ Goes("close_keys", "idle") /\ unwritten = {}
    /\ generated' = IF generated = "running" THEN "returned" ELSE generated
    /\ UNCHANGED <<call, unwritten, files>>
------------------------------------------------------------------------------
(* generateCertificate.                                                    *)

\* Without a password OpenSSL asks for one at the terminal, and may be told it.
ReadPrivate(given) ==
    /\ private > 0
    /\ lock = NoPassword \/ given \in {NoPassword, lock}
    /\ Goes("idle", "read_public")
    /\ n' = private /\ d' = private
    /\ UNCHANGED <<pairs, password, unwritten, generated, files>>

\* The public key is read into the private one.
ReadPublic ==
    /\ public > 0
    /\ Goes("read_public", "open_certificate")
    /\ n' = public
    /\ UNCHANGED <<pairs, password, d, unwritten, generated, files>>

OpenCertificate ==
    /\ Goes("open_certificate", "write_certificate")
    /\ certificate' = Unreadable /\ signer' = 0
    /\ UNCHANGED <<call, unwritten, generated, public, keyFile, dh>>

WriteCertificate ==
    /\ Goes("write_certificate", "close_certificate")
    /\ unwritten' = unwritten \cup {"certificate"}
    /\ UNCHANGED <<call, generated, files>>

\* Of a pair that is none, signing may fail too.
CertifyThrows ==
    /\ pc \in Certifies \ {"close_certificate"} /\ pc' = "idle"
    /\ UNCHANGED <<call, unwritten, generated, files>>

CloseCertificate ==
    /\ Goes("close_certificate", "idle")
    /\ unwritten' = unwritten \ {"certificate"}
    /\ \/ certificate' = n /\ signer' = d
       \/ certificate' = Unreadable /\ signer' = 0
    /\ UNCHANGED <<call, generated, public, keyFile, dh>>
------------------------------------------------------------------------------
(* SecureServer.                                                           *)

\* The context takes a private key only if the certificate names its public
\* one.  The password, even an empty one, is all it tries.
Start(given) ==
    /\ certificate > 0 /\ private = certificate
    /\ lock \in {NoPassword, given}
    /\ Goes("idle", "look_for_dh")
    /\ UNCHANGED <<call, unwritten, generated, files>>

LookForDh ==
    /\ pc = "look_for_dh"
    /\ pc' = IF dh = "absent" THEN "open_dh" ELSE "read_dh"
    /\ UNCHANGED <<call, unwritten, generated, files>>

\* Only then are the parameters generated, which takes minutes.
OpenDh ==
    /\ Goes("open_dh", "write_dh")
    /\ dh' = "unreadable"
    /\ UNCHANGED <<call, unwritten, generated, public, keyFile, certFile>>

WriteDh ==
    /\ Goes("write_dh", "close_dh")
    /\ unwritten' = unwritten \cup {"dh"}
    /\ UNCHANGED <<call, generated, files>>

CloseDh ==
    /\ Goes("close_dh", "read_dh")
    /\ unwritten' = unwritten \ {"dh"}
    /\ dh' \in {"whole", "unreadable"}
    /\ UNCHANGED <<call, generated, public, keyFile, certFile>>

ReadDh ==
    /\ dh = "whole"
    /\ Goes("read_dh", "serving")
    /\ UNCHANGED <<call, unwritten, generated, files>>

ReadDhThrows ==
    /\ dh # "whole"
    /\ Goes("read_dh", "idle")
    /\ UNCHANGED <<call, unwritten, generated, files>>

StartThrows ==
    /\ pc \in {"open_dh", "write_dh"} /\ pc' = "idle"
    /\ UNCHANGED <<call, unwritten, generated, files>>

\* ~SecureServer.
Stop ==
    /\ Goes("serving", "idle")
    /\ UNCHANGED <<call, unwritten, generated, files>>
------------------------------------------------------------------------------
\* The program is killed, with what it has not written.
Killed ==
    /\ pc # "idle" /\ pc' = "idle"
    /\ unwritten' = {}
    /\ generated' = IF generated = "running" THEN "killed" ELSE generated
    /\ UNCHANGED <<call, files>>

NextGenerate ==
    \/ \E given \in Passwords : Generate(given)
    \/ OpenPublic \/ WritePublic \/ OpenPrivate \/ WritePrivate
    \/ GenerateThrows \/ ClosePrivate \/ ClosePublic \/ GenerateEnds
NextCertify ==
    \/ \E given \in Passwords : ReadPrivate(given)
    \/ ReadPublic \/ OpenCertificate \/ WriteCertificate \/ CertifyThrows \/ CloseCertificate
NextServer ==
    \/ \E given \in Passwords : Start(given)
    \/ LookForDh \/ OpenDh \/ WriteDh \/ CloseDh \/ ReadDh \/ ReadDhThrows \/ StartThrows \/ Stop

Next == NextGenerate \/ NextCertify \/ NextServer \/ Killed

Spec == Init /\ [][Next]_vars
------------------------------------------------------------------------------
TypeOK ==
    /\ pc \in {"idle", "serving"} \cup Generates \cup Certifies \cup Starts
    /\ pairs \in 0..MaxPairs /\ password \in Passwords /\ n \in 0..MaxPairs /\ d \in 0..MaxPairs
    /\ unwritten \subseteq {"public", "private", "certificate", "dh"}
    /\ "public" \in unwritten \/ "private" \in unwritten => pc \in Generates
    /\ "certificate" \in unwritten => pc = "close_certificate"
    /\ "dh" \in unwritten => pc = "close_dh"
    /\ generated \in {"never", "running", "returned", "threw", "killed"}
    /\ public \in Held /\ private \in Held /\ lock \in Passwords
    /\ certificate \in Held /\ signer \in 0..MaxPairs /\ dh \in DhFile

\* However a generateRSAKey is cut short, the private key left is never newer
\* than the public one beside it; and if it returns, two keys that can be read
\* are one pair.
Readable == public > 0 /\ private > 0
PairsMatch ==
    Readable =>
        /\ private <= public
        /\ generated = "returned" => private = public

\* A server that serves shows a certificate signed with the key it has, though
\* generateCertificate may sign one for a public key of another pair.
ServesSound ==
    pc = "serving" => certificate = private /\ signer = private

\* A start that is cut short while the parameters are generated leaves a file
\* that is there and cannot be read: no server serves ever again.
NeverAgain == [](pc = "idle" /\ dh = "unreadable" => [](pc # "serving"))
------------------------------------------------------------------------------
(* The inductive invariant behind NeverAgain.                              *)

\* The file that cannot be read is not the one being written: it is there, and
\* so no start goes where one is made.
DhSpoilt ==
    dh = "unreadable" /\ pc \notin {"open_dh", "write_dh", "close_dh", "serving"}
==============================================================================
