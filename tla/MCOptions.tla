------------------------------ MODULE MCOptions ------------------------------
(* Values for the constants of Options.                                    *)
EXTENDS Options

CONSTANTS Words, MaxArguments

MCCommandLines == UNION {[1..n -> Words] : n \in 0..MaxArguments}

MCConfFiles ==
    {<<>>,
     <<Property("SECURE_ONLY", "true"), Property("DB.TYPE", "MySQL")>>,
     <<Property("REQUIRE_LOGIN", "0"), Property("SECURE_ONLY", "1"),
       Property("DB.PASSWORD", "secret")>>,
     <<Property("SECURE_ONLY", "yes")>>,
     <<Property("DB.TYPE", "Oracle")>>,
     <<Property("SECURE_ONLY", "1"), Property("PORT", "80")>>}

First == TypedLine("first", 5)
Second == TypedLine("second", 6)
Long == TypedLine("long", 300)
MCInputs ==
    {<<>>, <<First>>, <<First, Second>>, <<First, Long>>, <<Long, Second>>,
     <<First, Long, Second>>}
==============================================================================
