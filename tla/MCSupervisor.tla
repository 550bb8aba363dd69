---------------------------- MODULE MCSupervisor ----------------------------
(***************************************************************************)
(* TLC instances of Supervisor.                                            *)
(***************************************************************************)
EXTENDS Supervisor

\* Spellings 1 and 2 are of one address, 3 is of another, 4 is of none.
SpelledAddress == <<"a", "a", "b", None>>

FourSpellings == 1 .. 4

Secrets == {None} \cup [hex : BOOLEAN, prefix : BOOLEAN, padded : BOOLEAN]

CommandLine(secrets, keystores, passwords, files, urls, lists) ==
    [secret_key : secrets, keystore : keystores, raw_password : passwords,
     password_file : files, rpc_url : urls, flashbot_rpc_url : urls \cup {None},
     addresses : lists]

\* Every choice of credentials; and one choice with every list of addresses.
AllCommandLines ==
    CommandLine(Secrets, {None, "file", "directory", "missing"},
                {None, "right", "wrong"}, {None, "right", "wrong", "missing"},
                {"good", "bad"}, {{4}})
      \cup CommandLine({None}, {"file"}, {None}, {None}, {"good"},
                       {{}, {1, 2}, {1, 3}})

TwoSpellings ==
    CommandLine({None}, {"file"}, {"right"}, {None}, {"good"}, {{1, 2}})

=============================================================================
