------------------------------- MODULE Schemas -------------------------------
(***************************************************************************)
(* The messages of x/tokenfactory, x/tariff and x/globalfee: for each type  *)
(* the fields its Unmarshal knows, in the order of their numbers.  A type   *)
(* without fields skips whatever it is given.                               *)
(***************************************************************************)
Plain(kind) == [kind |-> kind, many |-> FALSE, optional |-> FALSE, of |-> ""]
String == Plain("bytes")
Strings == [String EXCEPT !.many = TRUE]
Bool == Plain("bool")
Uint == Plain("uint")
Number == Plain("number")   \* sdk.Int and sdk.Dec, which are digits in bytes
Embedded(type) == [Plain("message") EXCEPT !.of = type]
Pointer(type) == [Embedded(type) EXCEPT !.optional = TRUE]
List(type) == [Embedded(type) EXCEPT !.many = TRUE]

-----------------------------------------------------------------------------
(* Types of the SDK.                                                       *)
Coin == <<String, Number>>
DecCoin == <<String, Number>>
PageRequest == <<String, Uint, Uint, Bool, Bool>>
PageResponse == <<String, Uint>>

(* x/globalfee.                                                           *)
GlobalFeeGenesisState == <<Embedded("GlobalFeeParams")>>
GlobalFeeParams == <<List("DecCoin"), Strings>>
GlobalFeeQueryParamsRequest == <<>>
GlobalFeeQueryParamsResponse == <<Embedded("GlobalFeeParams")>>

(* x/tariff.                                                              *)
TariffGenesisState == <<Embedded("TariffParams")>>
TariffParams ==
  <<Number, List("TariffDistributionEntity"), Number, Number, String>>
TariffDistributionEntity == <<String, Number>>
TariffQueryParamsRequest == <<>>
TariffQueryParamsResponse == <<Embedded("TariffParams")>>

(* x/tokenfactory.                                                        *)
Blacklisted == <<String>>
Blacklister == <<String>>
GenesisState ==
  <<Embedded("Params"), List("Blacklisted"), Pointer("Paused"),
    Pointer("MasterMinter"), List("Minters"), Pointer("Pauser"),
    Pointer("Blacklister"), Pointer("Owner"), List("MinterController"),
    Pointer("MintingDenom")>>
MasterMinter == <<String>>
MinterController == <<String, String>>
Minters == <<String, Embedded("Coin")>>
MintingDenom == <<String>>
Owner == <<String>>
Params == <<>>
Paused == <<Bool>>
Pauser == <<String>>
QueryParamsRequest == <<>>
QueryParamsResponse == <<Embedded("Params")>>
QueryGetBlacklistedRequest == <<String>>
QueryGetBlacklistedResponse == <<Embedded("Blacklisted")>>
QueryAllBlacklistedRequest == <<Pointer("PageRequest")>>
QueryAllBlacklistedResponse == <<List("Blacklisted"), Pointer("PageResponse")>>
QueryGetPausedRequest == <<>>
QueryGetPausedResponse == <<Embedded("Paused")>>
QueryGetMasterMinterRequest == <<>>
QueryGetMasterMinterResponse == <<Embedded("MasterMinter")>>
QueryGetMintersRequest == <<String>>
QueryGetMintersResponse == <<Embedded("Minters")>>
QueryAllMintersRequest == <<Pointer("PageRequest")>>
QueryAllMintersResponse == <<List("Minters"), Pointer("PageResponse")>>
QueryGetPauserRequest == <<>>
QueryGetPauserResponse == <<Embedded("Pauser")>>
QueryGetBlacklisterRequest == <<>>
QueryGetBlacklisterResponse == <<Embedded("Blacklister")>>
QueryGetOwnerRequest == <<>>
QueryGetOwnerResponse == <<Embedded("Owner")>>
QueryGetMinterControllerRequest == <<String>>
QueryGetMinterControllerResponse == <<Embedded("MinterController")>>
QueryAllMinterControllerRequest == <<Pointer("PageRequest")>>
QueryAllMinterControllerResponse ==
  <<List("MinterController"), Pointer("PageResponse")>>
QueryGetMintingDenomRequest == <<>>
QueryGetMintingDenomResponse == <<Embedded("MintingDenom")>>
MsgUpdateMasterMinter == <<String, String>>
MsgUpdateMasterMinterResponse == <<>>
MsgUpdatePauser == <<String, String>>
MsgUpdatePauserResponse == <<>>
MsgUpdateBlacklister == <<String, String>>
MsgUpdateBlacklisterResponse == <<>>
MsgUpdateOwner == <<String, String>>
MsgUpdateOwnerResponse == <<>>
MsgAcceptOwner == <<String>>
MsgAcceptOwnerResponse == <<>>
MsgConfigureMinter == <<String, String, Embedded("Coin")>>
MsgConfigureMinterResponse == <<>>
MsgRemoveMinter == <<String, String>>
MsgRemoveMinterResponse == <<>>
MsgMint == <<String, String, Embedded("Coin")>>
MsgMintResponse == <<>>
MsgBurn == <<String, Embedded("Coin")>>
MsgBurnResponse == <<>>
MsgBlacklist == <<String, String>>
MsgBlacklistResponse == <<>>
MsgUnblacklist == <<String, String>>
MsgUnblacklistResponse == <<>>
MsgPause == <<String>>
MsgPauseResponse == <<>>
MsgUnpause == <<String>>
MsgUnpauseResponse == <<>>
MsgConfigureMinterController == <<String, String, String>>
MsgConfigureMinterControllerResponse == <<>>
MsgRemoveMinterController == <<String, String>>
MsgRemoveMinterControllerResponse == <<>>

MessageTypes ==
  [Coin |-> Coin, DecCoin |-> DecCoin, PageRequest |-> PageRequest,
    PageResponse |-> PageResponse,
    GlobalFeeGenesisState |-> GlobalFeeGenesisState,
    GlobalFeeParams |-> GlobalFeeParams,
    GlobalFeeQueryParamsRequest |-> GlobalFeeQueryParamsRequest,
    GlobalFeeQueryParamsResponse |-> GlobalFeeQueryParamsResponse,
    TariffGenesisState |-> TariffGenesisState, TariffParams |-> TariffParams,
    TariffDistributionEntity |-> TariffDistributionEntity,
    TariffQueryParamsRequest |-> TariffQueryParamsRequest,
    TariffQueryParamsResponse |-> TariffQueryParamsResponse,
    Blacklisted |-> Blacklisted, Blacklister |-> Blacklister,
    GenesisState |-> GenesisState, MasterMinter |-> MasterMinter,
    MinterController |-> MinterController, Minters |-> Minters,
    MintingDenom |-> MintingDenom, Owner |-> Owner, Params |-> Params,
    Paused |-> Paused, Pauser |-> Pauser,
    QueryParamsRequest |-> QueryParamsRequest,
    QueryParamsResponse |-> QueryParamsResponse,
    QueryGetBlacklistedRequest |-> QueryGetBlacklistedRequest,
    QueryGetBlacklistedResponse |-> QueryGetBlacklistedResponse,
    QueryAllBlacklistedRequest |-> QueryAllBlacklistedRequest,
    QueryAllBlacklistedResponse |-> QueryAllBlacklistedResponse,
    QueryGetPausedRequest |-> QueryGetPausedRequest,
    QueryGetPausedResponse |-> QueryGetPausedResponse,
    QueryGetMasterMinterRequest |-> QueryGetMasterMinterRequest,
    QueryGetMasterMinterResponse |-> QueryGetMasterMinterResponse,
    QueryGetMintersRequest |-> QueryGetMintersRequest,
    QueryGetMintersResponse |-> QueryGetMintersResponse,
    QueryAllMintersRequest |-> QueryAllMintersRequest,
    QueryAllMintersResponse |-> QueryAllMintersResponse,
    QueryGetPauserRequest |-> QueryGetPauserRequest,
    QueryGetPauserResponse |-> QueryGetPauserResponse,
    QueryGetBlacklisterRequest |-> QueryGetBlacklisterRequest,
    QueryGetBlacklisterResponse |-> QueryGetBlacklisterResponse,
    QueryGetOwnerRequest |-> QueryGetOwnerRequest,
    QueryGetOwnerResponse |-> QueryGetOwnerResponse,
    QueryGetMinterControllerRequest |-> QueryGetMinterControllerRequest,
    QueryGetMinterControllerResponse |-> QueryGetMinterControllerResponse,
    QueryAllMinterControllerRequest |-> QueryAllMinterControllerRequest,
    QueryAllMinterControllerResponse |-> QueryAllMinterControllerResponse,
    QueryGetMintingDenomRequest |-> QueryGetMintingDenomRequest,
    QueryGetMintingDenomResponse |-> QueryGetMintingDenomResponse,
    MsgUpdateMasterMinter |-> MsgUpdateMasterMinter,
    MsgUpdateMasterMinterResponse |-> MsgUpdateMasterMinterResponse,
    MsgUpdatePauser |-> MsgUpdatePauser,
    MsgUpdatePauserResponse |-> MsgUpdatePauserResponse,
    MsgUpdateBlacklister |-> MsgUpdateBlacklister,
    MsgUpdateBlacklisterResponse |-> MsgUpdateBlacklisterResponse,
    MsgUpdateOwner |-> MsgUpdateOwner,
    MsgUpdateOwnerResponse |-> MsgUpdateOwnerResponse,
    MsgAcceptOwner |-> MsgAcceptOwner,
    MsgAcceptOwnerResponse |-> MsgAcceptOwnerResponse,
    MsgConfigureMinter |-> MsgConfigureMinter,
    MsgConfigureMinterResponse |-> MsgConfigureMinterResponse,
    MsgRemoveMinter |-> MsgRemoveMinter,
    MsgRemoveMinterResponse |-> MsgRemoveMinterResponse, MsgMint |-> MsgMint,
    MsgMintResponse |-> MsgMintResponse, MsgBurn |-> MsgBurn,
    MsgBurnResponse |-> MsgBurnResponse, MsgBlacklist |-> MsgBlacklist,
    MsgBlacklistResponse |-> MsgBlacklistResponse,
    MsgUnblacklist |-> MsgUnblacklist,
    MsgUnblacklistResponse |-> MsgUnblacklistResponse, MsgPause |-> MsgPause,
    MsgPauseResponse |-> MsgPauseResponse, MsgUnpause |-> MsgUnpause,
    MsgUnpauseResponse |-> MsgUnpauseResponse,
    MsgConfigureMinterController |-> MsgConfigureMinterController,
    MsgConfigureMinterControllerResponse |-> MsgConfigureMinterControllerResponse,
    MsgRemoveMinterController |-> MsgRemoveMinterController,
    MsgRemoveMinterControllerResponse |-> MsgRemoveMinterControllerResponse]
=============================================================================
