-------------------------- MODULE ServerKeysProofs --------------------------
(***************************************************************************)
(* What is true of the files of ServerKeys for any number of pairs and any *)
(* passwords.  Types, with the numbers of the keys; then Order, which says *)
(* what the pair being generated and the older ones may be, and from which *)
(* the two properties follow.                                              *)
(***************************************************************************)
EXTENDS ServerKeys, TLAPS

\* No file holds a key of a pair not generated yet, and while one is generated
\* its keys are in no certificate.  Its private key is in no file, and the
\* public one in none that can be read, before the files are closed.
Order ==
    /\ private <= pairs /\ public <= pairs
    /\ certificate <= pairs /\ n <= pairs
    /\ pc \in Generates => certificate < pairs /\ pairs > 0
    /\ pc \in {"open_public", "write_public"} => "public" \notin unwritten
    /\ pc \in Generates \ {"close_keys"} => "private" \notin unwritten /\ private < pairs
    /\ pc \in {"write_public", "open_private", "write_private"} => public = Unreadable
    /\ pc = "write_private" => private = Unreadable
    /\ "private" \in unwritten => public = Unreadable
    /\ "private" \in unwritten => private = Unreadable

\* What closing the files can leave of the pair, if nothing has failed.
Matching ==
    /\ generated = "running" => pc \in Generates
    /\ pc \in Generates => generated \in {"running", "threw"}
    /\ pc = "close_keys" /\ generated = "running" =>
         private \in {Unreadable, pairs} /\ public \in {Unreadable, pairs}
    /\ PairsMatch

\* A certificate signed with another key than the one it names is of a public
\* key whose private one is gone.
Signed ==
    /\ pc \in Certifies => d = private
    /\ certificate > 0 /\ private = certificate => signer = private
    /\ pc \in Starts \cup {"serving"} =>
         certificate > 0 /\ private = certificate

------------------------------------------------------------------------------
LEMMA TypeInit == Init => TypeOK
<1> SUFFICES ASSUME Init PROVE TypeOK
  OBVIOUS
<1>1. /\ public \in Held /\ private \in Held /\ certificate \in Held
      /\ pairs \in 0..MaxPairs /\ n \in 0..MaxPairs /\ d \in 0..MaxPairs /\ signer \in 0..MaxPairs
  BY MaxPairsAssumption DEF Init, Held, Absent
<1> QED
  BY <1>1, PasswordsAssumption DEF Init, TypeOK, DhFile

LEMMA TypeKept == TypeOK /\ [Next]_vars => TypeOK'
<1> SUFFICES ASSUME TypeOK, [Next]_vars PROVE TypeOK'
  OBVIOUS
<1> USE PasswordsAssumption, MaxPairsAssumption
    DEF TypeOK, Held, Absent, Unreadable, DhFile, Generates, Certifies, Starts, Goes,
        call, keyFile, certFile, files
<1>1. ASSUME NEW given \in Passwords, Generate(given) PROVE TypeOK'
  BY <1>1 DEF Generate
<1>2. CASE OpenPublic
  BY <1>2 DEF OpenPublic
<1>3. CASE WritePublic
  BY <1>3 DEF WritePublic
<1>4. CASE OpenPrivate
  BY <1>4 DEF OpenPrivate
<1>5. CASE WritePrivate
  BY <1>5 DEF WritePrivate
<1>6. CASE GenerateThrows
  BY <1>6 DEF GenerateThrows
<1>7. CASE ClosePrivate
  BY <1>7 DEF ClosePrivate
<1>8. CASE ClosePublic
  BY <1>8 DEF ClosePublic
<1>9. CASE GenerateEnds
  BY <1>9 DEF GenerateEnds
<1>10. ASSUME NEW given \in Passwords, ReadPrivate(given) PROVE TypeOK'
  BY <1>10 DEF ReadPrivate
<1>11. CASE ReadPublic
  BY <1>11 DEF ReadPublic
<1>12. CASE OpenCertificate
  BY <1>12 DEF OpenCertificate
<1>13. CASE WriteCertificate
  BY <1>13 DEF WriteCertificate
<1>14. CASE CertifyThrows
  BY <1>14 DEF CertifyThrows
<1>15. CASE CloseCertificate
  BY <1>15 DEF CloseCertificate
<1>16. CASE NextServer
  BY <1>16 DEF NextServer, Start, LookForDh, OpenDh, WriteDh, CloseDh, ReadDh, ReadDhThrows,
              StartThrows, Stop
<1>17. CASE Killed
  BY <1>17 DEF Killed
<1>18. CASE UNCHANGED vars
  BY <1>18 DEF vars
<1> QED
  BY <1>1, <1>2, <1>3, <1>4, <1>5, <1>6, <1>7, <1>8, <1>9,
     <1>10, <1>11, <1>12, <1>13, <1>14, <1>15, <1>16, <1>17, <1>18
  DEF Next, NextGenerate, NextCertify

\* The types are kept by every step: files hold what their readers expect, and
\* nothing stays unwritten when a call has ended.
THEOREM TypeCorrect == Spec => []TypeOK
  BY TypeInit, TypeKept, PTL DEF Spec

------------------------------------------------------------------------------
LEMMA KeyTypes ==
  ASSUME TypeOK
  PROVE  /\ pairs \in Nat /\ public \in Int /\ private \in Int
         /\ certificate \in Int /\ n \in Int
         /\ "public" \in unwritten \/ "private" \in unwritten => pc \in Generates
  BY MaxPairsAssumption DEF TypeOK, Held, Absent

LEMMA OrderKept == TypeOK /\ Order /\ [Next]_vars => Order'
<1> SUFFICES ASSUME TypeOK, Order, [Next]_vars PROVE Order'
  OBVIOUS
<1> USE KeyTypes DEF Order, Generates, Certifies, Starts, Unreadable, Goes, call, keyFile, certFile, files
<1>1. ASSUME NEW given \in Passwords, Generate(given) PROVE Order'
  BY <1>1 DEF Generate
<1>2. CASE OpenPublic
  BY <1>2 DEF OpenPublic
<1>3. CASE WritePublic
  BY <1>3 DEF WritePublic
<1>4. CASE OpenPrivate
  BY <1>4 DEF OpenPrivate
<1>5. CASE WritePrivate
  BY <1>5 DEF WritePrivate
<1>6. CASE GenerateThrows
  BY <1>6 DEF GenerateThrows
<1>7. CASE ClosePrivate
  BY <1>7 DEF ClosePrivate
<1>8. CASE ClosePublic
  BY <1>8 DEF ClosePublic
<1>9. CASE GenerateEnds
  BY <1>9 DEF GenerateEnds
<1>10. ASSUME NEW given \in Passwords, ReadPrivate(given) PROVE Order'
  BY <1>10 DEF ReadPrivate
<1>11. CASE ReadPublic
  BY <1>11 DEF ReadPublic
<1>12. CASE OpenCertificate
  BY <1>12 DEF OpenCertificate
<1>13. CASE WriteCertificate
  BY <1>13 DEF WriteCertificate
<1>14. CASE CertifyThrows
  BY <1>14 DEF CertifyThrows
<1>15. CASE CloseCertificate
  BY <1>15 DEF CloseCertificate
<1>16. CASE NextServer
  BY <1>16 DEF NextServer, Start, LookForDh, OpenDh, WriteDh, CloseDh, ReadDh, ReadDhThrows,
              StartThrows, Stop
<1>17. CASE Killed
  BY <1>17 DEF Killed
<1>18. CASE UNCHANGED vars
  BY <1>18 DEF vars
<1> QED
  BY <1>1, <1>2, <1>3, <1>4, <1>5, <1>6, <1>7, <1>8, <1>9,
     <1>10, <1>11, <1>12, <1>13, <1>14, <1>15, <1>16, <1>17, <1>18
  DEF Next, NextGenerate, NextCertify

LEMMA MatchingKept == TypeOK /\ Order /\ Matching /\ [Next]_vars => Matching'
<1> SUFFICES ASSUME TypeOK, Order, Matching, [Next]_vars PROVE Matching'
  OBVIOUS
<1> USE KeyTypes
    DEF Order, Matching, PairsMatch, Readable, Generates, Certifies, Starts, Unreadable, Goes,
        call, keyFile, certFile, files
<1>1. ASSUME NEW given \in Passwords, Generate(given) PROVE Matching'
  BY <1>1 DEF Generate
<1>2. CASE OpenPublic
  BY <1>2 DEF OpenPublic
<1>3. CASE WritePublic
  BY <1>3 DEF WritePublic
<1>4. CASE OpenPrivate
  BY <1>4 DEF OpenPrivate
<1>5. CASE WritePrivate
  BY <1>5 DEF WritePrivate
<1>6. CASE GenerateThrows
  BY <1>6 DEF GenerateThrows
<1>7. CASE ClosePrivate
  BY <1>7 DEF ClosePrivate
<1>8. CASE ClosePublic
  BY <1>8 DEF ClosePublic
<1>9. CASE GenerateEnds
  BY <1>9 DEF GenerateEnds
<1>10. ASSUME NEW given \in Passwords, ReadPrivate(given) PROVE Matching'
  BY <1>10 DEF ReadPrivate
<1>11. CASE ReadPublic
  BY <1>11 DEF ReadPublic
<1>12. CASE OpenCertificate
  BY <1>12 DEF OpenCertificate
<1>13. CASE WriteCertificate
  BY <1>13 DEF WriteCertificate
<1>14. CASE CertifyThrows
  BY <1>14 DEF CertifyThrows
<1>15. CASE CloseCertificate
  BY <1>15 DEF CloseCertificate
<1>16. CASE NextServer
  BY <1>16 DEF NextServer, Start, LookForDh, OpenDh, WriteDh, CloseDh, ReadDh, ReadDhThrows,
              StartThrows, Stop
<1>17. CASE Killed
  BY <1>17 DEF Killed
<1>18. CASE UNCHANGED vars
  BY <1>18 DEF vars
<1> QED
  BY <1>1, <1>2, <1>3, <1>4, <1>5, <1>6, <1>7, <1>8, <1>9,
     <1>10, <1>11, <1>12, <1>13, <1>14, <1>15, <1>16, <1>17, <1>18
  DEF Next, NextGenerate, NextCertify

LEMMA SignedKept == TypeOK /\ Order /\ Signed /\ [Next]_vars => Signed'
<1> SUFFICES ASSUME TypeOK, Order, Signed, [Next]_vars PROVE Signed'
  OBVIOUS
<1> USE KeyTypes
    DEF Order, Signed, Generates, Certifies, Starts, Unreadable, Goes, call, keyFile, certFile, files
<1>1. ASSUME NEW given \in Passwords, Generate(given) PROVE Signed'
  BY <1>1 DEF Generate
<1>2. CASE OpenPublic
  BY <1>2 DEF OpenPublic
<1>3. CASE WritePublic
  BY <1>3 DEF WritePublic
<1>4. CASE OpenPrivate
  BY <1>4 DEF OpenPrivate
<1>5. CASE WritePrivate
  BY <1>5 DEF WritePrivate
<1>6. CASE GenerateThrows
  BY <1>6 DEF GenerateThrows
<1>7. CASE ClosePrivate
  BY <1>7 DEF ClosePrivate
<1>8. CASE ClosePublic
  BY <1>8 DEF ClosePublic
<1>9. CASE GenerateEnds
  BY <1>9 DEF GenerateEnds
<1>10. ASSUME NEW given \in Passwords, ReadPrivate(given) PROVE Signed'
  BY <1>10 DEF ReadPrivate
<1>11. CASE ReadPublic
  BY <1>11 DEF ReadPublic
<1>12. CASE OpenCertificate
  BY <1>12 DEF OpenCertificate
<1>13. CASE WriteCertificate
  BY <1>13 DEF WriteCertificate
<1>14. CASE CertifyThrows
  BY <1>14 DEF CertifyThrows
<1>15. CASE CloseCertificate
  BY <1>15 DEF CloseCertificate
<1>16. CASE NextServer
  BY <1>16 DEF NextServer, Start, LookForDh, OpenDh, WriteDh, CloseDh, ReadDh, ReadDhThrows,
              StartThrows, Stop
<1>17. CASE Killed
  BY <1>17 DEF Killed
<1>18. CASE UNCHANGED vars
  BY <1>18 DEF vars
<1> QED
  BY <1>1, <1>2, <1>3, <1>4, <1>5, <1>6, <1>7, <1>8, <1>9,
     <1>10, <1>11, <1>12, <1>13, <1>14, <1>15, <1>16, <1>17, <1>18
  DEF Next, NextGenerate, NextCertify

LEMMA KeysInit == Init => Order /\ Matching /\ Signed
  BY DEF Init, Order, Matching, Signed, PairsMatch, Readable, Generates, Certifies, Starts,
         Absent, Unreadable

\* Whatever cuts generateRSAKey short, the keys that can be read are one pair or
\* the private one is the older, and they are one pair if it has returned.
THEOREM PairsMatchCorrect == Spec => []PairsMatch
<1>1. TypeOK /\ Order /\ Matching /\ [Next]_vars => Order' /\ Matching'
  BY OrderKept, MatchingKept
<1>2. Matching => PairsMatch
  BY DEF Matching
<1> QED
  BY <1>1, <1>2, KeysInit, TypeCorrect, PTL DEF Spec

\* A server shows only certificates signed with the key it has, whatever pairs
\* generateCertificate was given before.
THEOREM ServesSoundCorrect == Spec => []ServesSound
<1>1. TypeOK /\ Order /\ Signed /\ [Next]_vars => Order' /\ Signed'
  BY OrderKept, SignedKept
<1>2. Signed => ServesSound
  BY DEF Signed, ServesSound
<1> QED
  BY <1>1, <1>2, KeysInit, TypeCorrect, PTL DEF Spec
------------------------------------------------------------------------------
(* What a start that was cut short leaves behind.                          *)

LEMMA SpoiltStays == DhSpoilt /\ [Next]_vars => DhSpoilt'
<1>. SUFFICES ASSUME DhSpoilt, [Next]_vars PROVE DhSpoilt'
  OBVIOUS
<1>. USE DEF DhSpoilt, Goes, files, keyFile, certFile, call
<1>1. CASE NextGenerate
  BY <1>1 DEF NextGenerate, Generate, OpenPublic, WritePublic, OpenPrivate, WritePrivate,
              GenerateThrows, ClosePrivate, ClosePublic, GenerateEnds, Generates
<1>2. CASE NextCertify
  BY <1>2 DEF NextCertify, ReadPrivate, ReadPublic, OpenCertificate, WriteCertificate,
              CertifyThrows, CloseCertificate, Certifies
<1>3. CASE NextServer
  BY <1>3 DEF NextServer, Start, LookForDh, OpenDh, WriteDh, CloseDh, ReadDh, ReadDhThrows,
              StartThrows, Stop
<1>4. CASE Killed
  BY <1>4 DEF Killed
<1>5. CASE UNCHANGED vars
  BY <1>5 DEF vars
<1>. QED
  BY <1>1, <1>2, <1>3, <1>4, <1>5 DEF Next

\* Once a start has been cut short while the parameters were generated, no
\* server of these files ever serves again, however often it is started and
\* whatever keys and certificates are made meanwhile.
THEOREM NeverAgainCorrect == Spec => NeverAgain
<1>1. (pc = "idle" /\ dh = "unreadable") => DhSpoilt
  BY DEF DhSpoilt
<1>2. DhSpoilt => pc # "serving"
  BY DEF DhSpoilt
<1>. QED
  BY <1>1, <1>2, SpoiltStays, PTL DEF Spec, NeverAgain
==============================================================================
