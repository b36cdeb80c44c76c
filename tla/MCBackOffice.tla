----------------------------- MODULE MCBackOffice -----------------------------
(* Small instance of BackOffice.                                               *)
EXTENDS BackOffice, TLC

CONSTANTS faq1, faq2, sponsor, package1, package2, ad, message,
          shown, other, site, padded, phone, wa, words, spaces

KindPerItem ==
    faq1 :> "Faq" @@ faq2 :> "Faq" @@ sponsor :> "Sponsor"
    @@ package1 :> "CoinPackage" @@ package2 :> "CoinPackage"
    @@ ad :> "SponsoredAd" @@ message :> "ContactMessage"

WithoutSpace == [v \in Values |-> IF v = padded THEN site
                                  ELSE IF v = spaces THEN Blank ELSE v]

WaMeOfPhone == [v \in Values |-> IF v = phone THEN wa ELSE None]

EverySocialIsOther == [v \in Values |-> "OTHER"]

TwoSeedRows == <<[kind |-> "CoinPackage", name |-> shown], [kind |-> "Faq", name |-> shown]>>

D(type, value, target, whatsapp, social) ==
    [type |-> type, value |-> value, target |-> target, whatsapp |-> whatsapp,
     social |-> social]

SmallDtos ==
    {D("WHATSAPP", phone, None, None, None), D("WHATSAPP", words, None, None, None),
     D("FACEBOOK", "null", None, None, None), D(None, Blank, site, None, site),
     D(None, spaces, None, None, None), D("null", padded, None, None, None),
     D(None, None, "null", wa, None)}

SmallWorkloads ==
    {{"SponsoredAd"}, {"CoinPackage"}, {"Faq"}, {"Sponsor", "ContactMessage"},
     {"read", "edit", "seed"}, {"seed", "CoinPackage"}}

Interchangeable == Permutations(Reqs)
=============================================================================
